---- MODULE Spec2Model ----
(***************************************************************************)
(* A model of CanCodec (src/zelos_extension_can/codec.py): the per-frame   *)
(* decode/emit pipeline with its schema cache, the timestamp normaliser,   *)
(* the bus lifecycle (start, stop, health-monitor loop, reconnection) and  *)
(* the periodic-transmission tasks.                                        *)
(*                                                                         *)
(* The collaborators (the signal-database library, the transport and the   *)
(* telemetry sink) are environments: their answers are inputs drawn from   *)
(* small sets.                                                             *)
(***************************************************************************)
EXTENDS Integers, Sequences, FiniteSets, TLC

(***************************************************************************)
(* Python values.  A nullable value is a set with at most one element.     *)
(***************************************************************************)
None == {}
Some(x) == {x}
Val(s) == CHOOSE x \in s : TRUE

(***************************************************************************)
(* Bounds of the model.                                                    *)
(***************************************************************************)
\* frames delivered to _handle_message in one behaviour
MaxFrames == 3
\* frames given to each of two codecs that are compared
MaxPairFrames == 2
\* frames delivered in one behaviour that also runs the bus lifecycle
MaxLiveFrames == 2
\* the selector field of a frame takes the raw values 0..MaxSel
MaxSel == 2
\* direct get_timestamp calls in one behaviour
MaxCalls == 3
\* wall-clock ticks in one behaviour
MaxTicks == 2
\* transport handles opened in one behaviour
MaxOpens == 2
\* asyncio tasks created by start_periodic in one behaviour
MaxTasks == 2
\* tasks created by start_periodic in one behaviour that also runs the
\* health-monitor loop
MaxLoopTasks == 1

(***************************************************************************)
(* The signal catalog (cantools database).  Signals carry what codec.py    *)
(* reads of them: name, multiplexer_ids, is_multiplexer, choices.          *)
(* The catalog has a plain message with a labelled signal, a second        *)
(* message of the same name, a multiplexed message whose selector has      *)
(* values 0 and 1 declared (0 labelled), and a message without signals.    *)
(***************************************************************************)
NoChoices == [k \in {} |-> ""]

Signal(n, ids, mux, ch) ==
    [name |-> n, multiplexer_ids |-> ids, is_multiplexer |-> mux, choices |-> ch]

Messages ==
    << [frame_id |-> 100, name |-> "Status",
        signals |-> << Signal("mode", {}, FALSE, (0 :> "OFF" @@ 1 :> "ON")),
                       Signal("level", {}, FALSE, NoChoices) >>],
       [frame_id |-> 101, name |-> "Status",
        signals |-> << Signal("level", {}, FALSE, NoChoices) >>],
       [frame_id |-> 200, name |-> "Mux",
        signals |-> << Signal("sel", {}, TRUE, (0 :> "A")),
                       Signal("count", {}, FALSE, NoChoices),
                       Signal("x", {0}, FALSE, NoChoices),
                       Signal("y", {1}, FALSE, (1 :> "HI")),
                       Signal("z", {0, 1}, FALSE, NoChoices) >>],
       [frame_id |-> 300, name |-> "Empty", signals |-> << >>] >>

FrameIds == {Messages[i].frame_id : i \in DOMAIN Messages}

\* an arbitration ID that no catalog message has
UnknownId == CHOOSE n \in 1..2047 : n \notin FrameIds

\* raw values of the signals other than the selector
RawValues == {0, 1}

SeqRange(s) == {s[i] : i \in DOMAIN s}

\* cantools Message.is_multiplexed(): the message has a multiplexer signal
is_multiplexed(msg) == \E s \in SeqRange(msg.signals) : s.is_multiplexer

\* next((sig for sig in dbc_msg.signals if sig.is_multiplexer), None)
mux_signal_of(msg) ==
    LET idx == {i \in DOMAIN msg.signals : msg.signals[i].is_multiplexer}
    IN  IF idx = {} THEN None
        ELSE Some(msg.signals[CHOOSE i \in idx : \A j \in idx : i <= j])

\* dbc_msg.get_signal_by_name(signal_name)
get_signal_by_name(msg, n) ==
    msg.signals[CHOOSE i \in DOMAIN msg.signals : msg.signals[i].name = n]

\* signal.conversion.choice_to_number(value): the number whose label is value
choice_to_number(sig, label) ==
    CHOOSE k \in DOMAIN sig.choices : sig.choices[k] = label

(***************************************************************************)
(* CanCodec.__init__: the lookup tables.  messages_by_id keeps the last    *)
(* message of a frame ID, messages_by_name the first message of a name.    *)
(***************************************************************************)
\* variant of messages_by_id: a frame ID maps to the message its message's
\* name resolves to
messages_by_id_via_name ==
    [fid \in FrameIds |->
        LET own == Messages[CHOOSE i \in DOMAIN Messages : Messages[i].frame_id = fid]
            first == CHOOSE i \in DOMAIN Messages :
                        /\ Messages[i].name = own.name
                        /\ \A j \in DOMAIN Messages :
                              Messages[j].name = own.name => i <= j
        IN  Messages[first]]

messages_by_id ==
    [fid \in FrameIds |->
        Messages[CHOOSE i \in DOMAIN Messages :
                    /\ Messages[i].frame_id = fid
                    /\ \A j \in DOMAIN Messages :
                          Messages[j].frame_id = fid => j <= i]]

messages_by_name ==
    [n \in {Messages[i].name : i \in DOMAIN Messages} |->
        Messages[CHOOSE i \in DOMAIN Messages :
                    /\ Messages[i].name = n
                    /\ \A j \in DOMAIN Messages :
                          Messages[j].name = n => i <= j]]

(***************************************************************************)
(* Schema keys.  The cache _events is keyed by frame_id for the base       *)
(* schema and by (frame_id, mux_value) for a multiplexed variant; both are *)
(* tuples here.                                                            *)
(***************************************************************************)
BaseKey(fid) == <<fid>>
MuxKey(fid, v) == <<fid, v>>

(***************************************************************************)
(* Event names: f"{msg.frame_id:04x}_{msg.name}" and                       *)
(* f"{base}/{mux_value_str}".                                              *)
(***************************************************************************)
HexDigit(d) ==
    <<"0", "1", "2", "3", "4", "5", "6", "7",
      "8", "9", "a", "b", "c", "d", "e", "f">>[d + 1]

RECURSIVE HexStr(_)
HexStr(n) == IF n < 16 THEN HexDigit(n) ELSE HexStr(n \div 16) \o HexDigit(n % 16)

RECURSIVE HexLen(_)
HexLen(n) == IF n < 16 THEN 1 ELSE 1 + HexLen(n \div 16)

RECURSIVE Zeros(_)
Zeros(k) == IF k <= 0 THEN "" ELSE "0" \o Zeros(k - 1)

\* format(n, "04x") and format(n, "08x"): at least width digits, zero padded
HexPad(n, width) == Zeros(width - HexLen(n)) \o HexStr(n)

RECURSIVE DecStr(_)
DecStr(n) ==
    IF n < 10 THEN HexDigit(n) ELSE DecStr(n \div 10) \o HexDigit(n % 10)

get_event_name(msg) == HexPad(msg.frame_id, 4) \o "_" \o msg.name

(***************************************************************************)
(* The signal type mapper, utils/schema_utils.py.  A signal carries what   *)
(* the mapper reads: is_float, length, is_signed, scale and offset.  A     *)
(* Python number is [is_float, halves]: whether it is held as a float, and *)
(* twice its value, so that 0.5 is a value; an int has an even number of   *)
(* halves.                                                                 *)
(***************************************************************************)
PyInt(n) == [is_float |-> FALSE, halves |-> 2 * n]
PyFloat(h) == [is_float |-> TRUE, halves |-> h]

\* bit lengths at and on both sides of every threshold of the mapper
Lengths == {1, 8, 9, 16, 17, 32, 33, 64}

Scales == {PyInt(1), PyInt(2), PyInt(0 - 1), PyFloat(1), PyFloat(2), PyFloat(4)}

Offsets == {PyInt(0), PyInt(1), PyInt(0 - 1), PyFloat(0), PyFloat(1)}

Signals ==
    [is_float : BOOLEAN, length : Lengths, is_signed : BOOLEAN,
     scale : Scales, offset : Offsets]

\* variant of cantools_signal_to_trace_type: a scale makes the signal a float
\* when its value is not a whole number
cantools_signal_to_trace_type_nonintegral(sig) ==
    LET identity == sig.scale.halves = 2 /\ sig.offset.halves = 0
    IN  IF sig.is_float \/ sig.scale.halves % 2 # 0
        THEN IF sig.length > 32 THEN "Float64" ELSE "Float32"
        ELSE IF identity /\ sig.length <= 8
        THEN IF sig.is_signed THEN "Int8" ELSE "UInt8"
        ELSE IF identity /\ sig.length <= 16
        THEN IF sig.is_signed THEN "Int16" ELSE "UInt16"
        ELSE IF sig.length > 32
        THEN IF sig.is_signed THEN "Int64" ELSE "UInt64"
        ELSE IF sig.is_signed THEN "Int32" ELSE "UInt32"

\* cantools_signal_to_trace_type(signal); signal.scale == 1 and
\* signal.offset == 0 compare values, isinstance(signal.scale, float) asks
\* how the scale is held
cantools_signal_to_trace_type(sig) ==
    LET identity == sig.scale.halves = 2 /\ sig.offset.halves = 0
    IN  IF sig.is_float \/ sig.scale.is_float
        THEN IF sig.length > 32 THEN "Float64" ELSE "Float32"
        ELSE IF identity /\ sig.length <= 8
        THEN IF sig.is_signed THEN "Int8" ELSE "UInt8"
        ELSE IF identity /\ sig.length <= 16
        THEN IF sig.is_signed THEN "Int16" ELSE "UInt16"
        ELSE IF sig.length > 32
        THEN IF sig.is_signed THEN "Int64" ELSE "UInt64"
        ELSE IF sig.is_signed THEN "Int32" ELSE "UInt32"

(***************************************************************************)
(* Time.  The code's float seconds are integers counting thirds of a       *)
(* second, so that a value need not be a whole number of nanoseconds.      *)
(* int(x * 1e9) is the pair <<whole seconds, nanoseconds>>, truncated      *)
(* toward zero as Python's int() does.                                     *)
(***************************************************************************)
Seconds(n) == 3 * n

Abs(x) == IF x < 0 THEN 0 - x ELSE x

int_ns(x) ==
    IF x >= 0
    THEN << x \div 3, ((x % 3) * 1000000000) \div 3 >>
    ELSE << 0 - ((0 - x) \div 3), 0 - ((((0 - x) % 3) * 1000000000) \div 3) >>

\* time.time() when the codec is constructed
Wall0 == Seconds(100)

\* hardware timestamps offered to get_timestamp: a negative one, boot-relative
\* ones, ones exactly at and just inside the tolerance, and wall-clock ones
Samples ==
    {0 - 1, 0, 1, Seconds(10), Wall0 - Seconds(15), Wall0 - Seconds(15) + 1,
     Wall0, Wall0 + 2, Wall0 + Seconds(15)}

\* the tolerance of the Auto-mode detection, in seconds
AutoTolerance == 15

IGNORE == 0
ABSOLUTE == 1
AUTO == 2
TimestampMode == {IGNORE, ABSOLUTE, AUTO}

VARIABLES
    \* configuration, fixed at construction
    timestamp_mode,         \* TimestampMode
    emit_schemas_on_init,   \* BOOLEAN: eager schema generation
    log_raw_frames,         \* BOOLEAN: raw-frame logging
    \* timestamp state
    hw_timestamp_offset,    \* nullable
    first_hw_timestamp,     \* nullable
    now,                    \* the wall clock, time.time()
    ts_calls,               \* number of direct get_timestamp calls so far
    ts_arg,                 \* argument of the latest get_timestamp call (nullable)
    ts_result,              \* its result (nullable <<s, ns>>)
    ts_seen,                \* every <<sample, result>> converted so far
    \* decode pipeline
    metrics,                \* the four counters
    events,                 \* _events: schema key -> event handle
    source_events,          \* the sink: add_event calls, in order; handle = index
    last_frame,             \* the frame handled last (nullable)
    last_emits,             \* the emissions made while handling it, in order
    last_raw,               \* the raw-frame emission made while handling it (nullable)
    \* bus lifecycle
    is_virtual,             \* config: interface == "virtual" or demo_mode
    stops_listeners,        \* the transport library: can.Notifier.stop() calls stop()
                            \* on each listener of the notifier
    running,                \* self.running
    bus,                    \* self.bus: nullable transport handle (1, 2, ...)
    bus_shutdowns,          \* per handle opened so far: number of shutdown() calls
    bus_state,              \* what the held transport reports: "ACTIVE" or "PASSIVE"
    \* health-monitor loop (_run_async)
    loop_pc,                \* "idle", "sleep5", "reconnect_wait", "done"
    notifier,               \* the loop's current notifier (nullable index)
    notifiers,              \* every can.Notifier created: [bus, stopped, alive]
    \* periodic transmission
    periodic_tasks,         \* self.periodic_tasks: task name -> task (index of tasks)
    tasks,                  \* every asyncio task created: [name, cancelled, pc]
    \* observation
    last,                   \* the latest operation: [op, arg, result, calls, sent],
                            \* arg the task name given to or derived by the call,
                            \* calls the outcomes of the opens a start() made, sent
                            \* the <<task, handle>> of the frame a task step sent;
                            \* a get_metrics call adds read, the dictionary returned
    stop_requested,         \* stop() was called and no start() of the caller has succeeded since
    reopen_failed,          \* the latest reopen of a reconnection failed
    \* the transport configuration
    config,                 \* self.config: the keys start() reads
    bus_config,             \* the keyword arguments of the latest can.Bus call (nullable)
    \* the pure functions, checked on their own
    signal,                 \* a signal given to cantools_signal_to_trace_type (nullable)
    data_type,              \* the type it returned (nullable)
    named,                  \* a message and selector value to be named (nullable)
    event_names,            \* the names given: [base, variant] (nullable)
    \* the reader threads, when a delivery is taken in two steps
    delivery,               \* registration -> [msg, seen]: the frame its reader thread
                            \* is handling and the messages_received it has read
    delivered,              \* number of frames given to _handle_message so far
    \* two codecs built from the same catalog and given the same frames
    run_log,                \* per frame handled by this codec: [frame, emits, metrics],
                            \* emits naming events by their cache keys
    first_run               \* the run_log of the codec built before this one (nullable)

timeVars ==
    <<hw_timestamp_offset, first_hw_timestamp, now, ts_calls, ts_arg, ts_result, ts_seen>>
frameVars == <<metrics, events, source_events, last_frame, last_emits, last_raw>>
configVars == <<timestamp_mode, emit_schemas_on_init, log_raw_frames, is_virtual, config,
                stops_listeners>>
busVars == <<running, bus, bus_shutdowns, bus_state, bus_config>>
loopVars == <<loop_pc, notifier, notifiers>>
taskVars == <<periodic_tasks, tasks>>
obsVars == <<last, stop_requested, reopen_failed>>
lifeVars == <<busVars, loopVars, taskVars, obsVars>>
threadVars == <<delivery, delivered>>
pairVars == <<run_log, first_run>>
auxVars == <<signal, data_type, named, event_names, threadVars, pairVars>>
vars == <<configVars, timeVars, frameVars, lifeVars, auxVars>>

\* variant of get_timestamp: the offset is detected whenever the stored one is
\* falsy (None or 0.0), not only when it is None
get_timestamp_falsy_offset(mode, ts, hw_timestamp, wall_clock_time) ==
    IF hw_timestamp = None \/ mode = IGNORE
    THEN [offset |-> ts.offset, first |-> ts.first, result |-> None]
    ELSE IF mode = ABSOLUTE
    THEN [offset |-> ts.offset, first |-> ts.first,
          result |-> Some(int_ns(Val(hw_timestamp)))]
    ELSE LET hw == Val(hw_timestamp)
             detect == ts.offset = None \/ ts.offset = Some(0)
             time_diff == Abs(wall_clock_time - hw)
             offset == IF ~detect THEN Val(ts.offset)
                       ELSE IF time_diff < Seconds(AutoTolerance) THEN 0
                       ELSE wall_clock_time - hw
             first == IF detect THEN Some(hw) ELSE ts.first
         IN  [offset |-> Some(offset), first |-> first,
              result |-> Some(int_ns(hw + offset))]

\* variant of get_timestamp: the offset is detected at every call
get_timestamp_detect_each_call(mode, ts, hw_timestamp, wall_clock_time) ==
    IF hw_timestamp = None \/ mode = IGNORE
    THEN [offset |-> ts.offset, first |-> ts.first, result |-> None]
    ELSE IF mode = ABSOLUTE
    THEN [offset |-> ts.offset, first |-> ts.first,
          result |-> Some(int_ns(Val(hw_timestamp)))]
    ELSE LET hw == Val(hw_timestamp)
             detect == TRUE
             time_diff == Abs(wall_clock_time - hw)
             offset == IF ~detect THEN Val(ts.offset)
                       ELSE IF time_diff < Seconds(AutoTolerance) THEN 0
                       ELSE wall_clock_time - hw
             first == IF detect THEN Some(hw) ELSE ts.first
         IN  [offset |-> Some(offset), first |-> first,
              result |-> Some(int_ns(hw + offset))]

\* variant of get_timestamp: a sample exactly at the tolerance counts as
\* wall-clock time
get_timestamp_tolerance_inclusive(mode, ts, hw_timestamp, wall_clock_time) ==
    IF hw_timestamp = None \/ mode = IGNORE
    THEN [offset |-> ts.offset, first |-> ts.first, result |-> None]
    ELSE IF mode = ABSOLUTE
    THEN [offset |-> ts.offset, first |-> ts.first,
          result |-> Some(int_ns(Val(hw_timestamp)))]
    ELSE LET hw == Val(hw_timestamp)
             detect == ts.offset = None
             time_diff == Abs(wall_clock_time - hw)
             offset == IF ~detect THEN Val(ts.offset)
                       ELSE IF time_diff <= Seconds(AutoTolerance) THEN 0
                       ELSE wall_clock_time - hw
             first == IF detect THEN Some(hw) ELSE ts.first
         IN  [offset |-> Some(offset), first |-> first,
              result |-> Some(int_ns(hw + offset))]

\* variant of get_timestamp: Absolute mode stores the sample as the first one
get_timestamp_absolute_records(mode, ts, hw_timestamp, wall_clock_time) ==
    IF hw_timestamp = None \/ mode = IGNORE
    THEN [offset |-> ts.offset, first |-> ts.first, result |-> None]
    ELSE IF mode = ABSOLUTE
    THEN [offset |-> ts.offset, first |-> hw_timestamp,
          result |-> Some(int_ns(Val(hw_timestamp)))]
    ELSE LET hw == Val(hw_timestamp)
             detect == ts.offset = None
             time_diff == Abs(wall_clock_time - hw)
             offset == IF ~detect THEN Val(ts.offset)
                       ELSE IF time_diff < Seconds(AutoTolerance) THEN 0
                       ELSE wall_clock_time - hw
             first == IF detect THEN Some(hw) ELSE ts.first
         IN  [offset |-> Some(offset), first |-> first,
              result |-> Some(int_ns(hw + offset))]

\* variant of get_timestamp: a null sample in Auto mode settles the offset
\* as 0
get_timestamp_null_decides(mode, ts, hw_timestamp, wall_clock_time) ==
    IF mode = IGNORE
    THEN [offset |-> ts.offset, first |-> ts.first, result |-> None]
    ELSE IF hw_timestamp = None
    THEN [offset |-> IF mode = AUTO THEN Some(0) ELSE ts.offset,
          first |-> ts.first, result |-> None]
    ELSE IF mode = ABSOLUTE
    THEN [offset |-> ts.offset, first |-> ts.first,
          result |-> Some(int_ns(Val(hw_timestamp)))]
    ELSE LET hw == Val(hw_timestamp)
             detect == ts.offset = None
             time_diff == Abs(wall_clock_time - hw)
             offset == IF ~detect THEN Val(ts.offset)
                       ELSE IF time_diff < Seconds(AutoTolerance) THEN 0
                       ELSE wall_clock_time - hw
             first == IF detect THEN Some(hw) ELSE ts.first
         IN  [offset |-> Some(offset), first |-> first,
              result |-> Some(int_ns(hw + offset))]

(***************************************************************************)
(* CanCodec.get_timestamp.  ts is the timestamp state                      *)
(* [offset, first]; the result is [offset, first, result].                 *)
(***************************************************************************)
get_timestamp(mode, ts, hw_timestamp, wall_clock_time) ==
    IF hw_timestamp = None \/ mode = IGNORE
    THEN [offset |-> ts.offset, first |-> ts.first, result |-> None]
    ELSE IF mode = ABSOLUTE
    THEN [offset |-> ts.offset, first |-> ts.first,
          result |-> Some(int_ns(Val(hw_timestamp)))]
    ELSE LET hw == Val(hw_timestamp)
             detect == ts.offset = None
             time_diff == Abs(wall_clock_time - hw)
             offset == IF ~detect THEN Val(ts.offset)
                       ELSE IF time_diff < Seconds(AutoTolerance) THEN 0
                       ELSE wall_clock_time - hw
             first == IF detect THEN Some(hw) ELSE ts.first
         IN  [offset |-> Some(offset), first |-> first,
              result |-> Some(int_ns(hw + offset))]

TsState == [offset |-> hw_timestamp_offset, first |-> first_hw_timestamp]

(***************************************************************************)
(* The decode pipeline works on the codec record                           *)
(* c = [metrics, events, source_events, emits]; each operator returns the  *)
(* record after the method has run.                                        *)
(***************************************************************************)
Metrics0 ==
    [messages_received |-> 0, messages_decoded |-> 0,
     decode_errors |-> 0, unknown_messages |-> 0]

\* variant of Bump: the counter is taken down by one
Bump_down(c, counter) == [c EXCEPT !.metrics[counter] = @ - 1]

\* self.metrics.<counter> += 1
Bump(c, counter) == [c EXCEPT !.metrics[counter] = @ + 1]

NoEvents == [k \in {} |-> 0]

\* variant of add_event: the event is registered and not cached
add_event_uncached(c, cache_key, event_name, sigs) ==
    LET tables == {s.name : s \in {t \in SeqRange(sigs) : DOMAIN t.choices # {}}}
        schema == [name |-> event_name,
                   fields |-> [i \in DOMAIN sigs |-> sigs[i].name],
                   value_tables |-> tables]
    IN  [c EXCEPT !.source_events = Append(@, schema)]

\* self.source.add_event(name, fields) and add_value_table for every signal
\* with choices; self._events[cache_key] = event
add_event(c, cache_key, event_name, sigs) ==
    LET handle == Len(c.source_events) + 1
        tables == {s.name : s \in {t \in SeqRange(sigs) : DOMAIN t.choices # {}}}
        schema == [name |-> event_name,
                   fields |-> [i \in DOMAIN sigs |-> sigs[i].name],
                   value_tables |-> tables]
    IN  [c EXCEPT !.source_events = Append(@, schema),
                  !.events = (cache_key :> handle) @@ @]

IsBaseSignal(sig) == sig.multiplexer_ids = {}

generate_base_schema(c, dbc_msg) ==
    LET base_signals == SelectSeq(dbc_msg.signals, IsBaseSignal)
    IN  IF base_signals # << >>
        THEN add_event(c, BaseKey(dbc_msg.frame_id), get_event_name(dbc_msg), base_signals)
        ELSE c

\* variant of generate_mux_schema_for_value: a schema is added for a selector
\* value that no signal belongs to
generate_mux_schema_for_value_always(c, dbc_msg, mux_value_int) ==
    LET mux_signal == mux_signal_of(dbc_msg)
        cache_key == MuxKey(dbc_msg.frame_id, mux_value_int)
        InVariant(sig) == mux_value_int \in sig.multiplexer_ids
        mux_signals == SelectSeq(dbc_msg.signals, InVariant)
        mux_value_str ==
            IF mux_value_int \in DOMAIN Val(mux_signal).choices
            THEN Val(mux_signal).choices[mux_value_int]
            ELSE DecStr(mux_value_int)
    IN  IF mux_signal = None THEN c
        ELSE IF cache_key \in DOMAIN c.events THEN c
        ELSE add_event(c, cache_key,
                       get_event_name(dbc_msg) \o "/" \o mux_value_str, mux_signals)

generate_mux_schema_for_value(c, dbc_msg, mux_value_int) ==
    LET mux_signal == mux_signal_of(dbc_msg)
        cache_key == MuxKey(dbc_msg.frame_id, mux_value_int)
        InVariant(sig) == mux_value_int \in sig.multiplexer_ids
        mux_signals == SelectSeq(dbc_msg.signals, InVariant)
        mux_value_str ==
            IF mux_value_int \in DOMAIN Val(mux_signal).choices
            THEN Val(mux_signal).choices[mux_value_int]
            ELSE DecStr(mux_value_int)
    IN  IF mux_signal = None THEN c
        ELSE IF cache_key \in DOMAIN c.events THEN c
        ELSE IF mux_signals # << >>
        THEN add_event(c, cache_key,
                       get_event_name(dbc_msg) \o "/" \o mux_value_str, mux_signals)
        ELSE c

\* sorted(mux_values)
RECURSIVE Sorted(_)
Sorted(S) ==
    IF S = {} THEN << >>
    ELSE LET m == CHOOSE x \in S : \A y \in S : x <= y
         IN  <<m>> \o Sorted(S \ {m})

RECURSIVE generate_mux_values(_, _, _)
generate_mux_values(c, dbc_msg, values) ==
    IF values = << >> THEN c
    ELSE generate_mux_values(generate_mux_schema_for_value(c, dbc_msg, Head(values)),
                             dbc_msg, Tail(values))

\* variant of generate_mux_schemas: the schema of the smallest selector value
\* only
generate_mux_schemas_first(c, dbc_msg) ==
    LET mux_values == UNION {s.multiplexer_ids : s \in SeqRange(dbc_msg.signals)}
    IN  IF mux_signal_of(dbc_msg) = None \/ mux_values = {} THEN c
        ELSE generate_mux_values(c, dbc_msg, <<Head(Sorted(mux_values))>>)

generate_mux_schemas(c, dbc_msg) ==
    LET mux_values == UNION {s.multiplexer_ids : s \in SeqRange(dbc_msg.signals)}
    IN  IF mux_signal_of(dbc_msg) = None THEN c
        ELSE generate_mux_values(c, dbc_msg, Sorted(mux_values))

generate_schemas_of(c, dbc_msg) ==
    LET b == generate_base_schema(c, dbc_msg)
    IN  IF is_multiplexed(dbc_msg) THEN generate_mux_schemas(b, dbc_msg) ELSE b

RECURSIVE generate_from(_, _)
generate_from(c, i) ==
    IF i > Len(Messages) THEN c
    ELSE generate_from(generate_schemas_of(c, Messages[i]), i + 1)

generate_all_schemas(c) == generate_from(c, 1)

(***************************************************************************)
(* The signal-database collaborator, db.decode_message(frame_id, data).    *)
(* A frame carries, for its payload, the raw value of the selector (sel),  *)
(* the raw value of every other signal (val) and whether the payload is    *)
(* structurally undecodable (malformed).  A raw value that has a label in  *)
(* the signal's choices decodes to the label (a NamedSignalValue), any     *)
(* other one to the number.  The multiplexed signals decoded are those of  *)
(* the selector's value.                                                   *)
(***************************************************************************)
DecodeValue(sig, raw) ==
    IF raw \in DOMAIN sig.choices
    THEN [named |-> TRUE, label |-> sig.choices[raw], num |-> 0]
    ELSE [named |-> FALSE, label |-> "", num |-> raw]

decode_message(frame) ==
    IF frame.arbitration_id \notin FrameIds THEN [status |-> "KeyError"]
    ELSE IF frame.malformed THEN [status |-> "DecodeError"]
    ELSE LET msg == messages_by_id[frame.arbitration_id]
             active == {s \in SeqRange(msg.signals) :
                           s.multiplexer_ids = {} \/ frame.sel \in s.multiplexer_ids}
             Raw(sig) == IF sig.is_multiplexer THEN frame.sel ELSE frame.val
         IN  [status |-> "ok",
              decoded |-> [n \in {s.name : s \in active} |->
                              DecodeValue(get_signal_by_name(msg, n),
                                          Raw(get_signal_by_name(msg, n)))]]

(***************************************************************************)
(* Emission.                                                               *)
(***************************************************************************)
\* _convert_signals
convert_signals(dbc_msg, decoded, base_only, mux_value) ==
    LET Skip(n) ==
            LET signal_def == get_signal_by_name(dbc_msg, n)
            IN  IF base_only THEN signal_def.multiplexer_ids # {}
                ELSE /\ mux_value # None
                     /\ \/ signal_def.multiplexer_ids = {}
                        \/ Val(mux_value) \notin signal_def.multiplexer_ids
    IN  [n \in {m \in DOMAIN decoded : ~Skip(m)} |->
            IF ~decoded[n].named THEN decoded[n].num
            ELSE choice_to_number(get_signal_by_name(dbc_msg, n), decoded[n].label)]

\* variant of emit_signals: messages_decoded counts emissions
emit_signals_counting(c, event, signals, timestamp_ns, raises) ==
    IF raises THEN Bump(c, "decode_errors")
    ELSE [Bump(c, "messages_decoded") EXCEPT !.emits =
             Append(@, [event |-> event, signals |-> signals,
                        timestamp |-> timestamp_ns])]

\* _emit_signals: event.log / event.log_at; raises says that the sink raises
\* OverflowError or ValueError for this emission
emit_signals(c, event, signals, timestamp_ns, raises) ==
    IF raises THEN Bump(c, "decode_errors")
    ELSE [c EXCEPT !.emits =
             Append(@, [event |-> event, signals |-> signals,
                        timestamp |-> timestamp_ns])]

\* variant of emit_base_signals: lazy mode generates the base schema for
\* every frame, cached or not
emit_base_signals_regenerate(c, dbc_msg, decoded, timestamp_ns, raises) ==
    LET cache_key == BaseKey(dbc_msg.frame_id)
        c1 == IF ~emit_schemas_on_init
              THEN generate_base_schema(c, dbc_msg)
              ELSE c
    IN  IF cache_key \in DOMAIN c1.events
        THEN emit_signals(c1, c1.events[cache_key],
                          convert_signals(dbc_msg, decoded, TRUE, None),
                          timestamp_ns, raises)
        ELSE c1

\* _emit_base_signals
emit_base_signals(c, dbc_msg, decoded, timestamp_ns, raises) ==
    LET cache_key == BaseKey(dbc_msg.frame_id)
        c1 == IF cache_key \notin DOMAIN c.events /\ ~emit_schemas_on_init
              THEN generate_base_schema(c, dbc_msg)
              ELSE c
    IN  IF cache_key \in DOMAIN c1.events
        THEN emit_signals(c1, c1.events[cache_key],
                          convert_signals(dbc_msg, decoded, TRUE, None),
                          timestamp_ns, raises)
        ELSE c1

\* variant of mux_cache_key: the event of the first selector value, whatever
\* the frame's selector value
mux_cache_key_first(dbc_msg, mux_value_int) == MuxKey(dbc_msg.frame_id, 0)

\* the event _emit_multiplexed_signals looks up: (frame_id, mux_value_int)
mux_cache_key(dbc_msg, mux_value_int) == MuxKey(dbc_msg.frame_id, mux_value_int)

\* _emit_multiplexed_signals
emit_multiplexed_signals(c, dbc_msg, decoded, timestamp_ns, raises) ==
    LET mux_signal == mux_signal_of(dbc_msg)
        name == Val(mux_signal).name
        mux_value == decoded[name]
        mux_value_int ==
            IF ~mux_value.named THEN mux_value.num
            ELSE choice_to_number(Val(mux_signal), mux_value.label)
        cache_key == mux_cache_key(dbc_msg, mux_value_int)
        c1 == IF cache_key \notin DOMAIN c.events /\ ~emit_schemas_on_init
              THEN generate_mux_schema_for_value(c, dbc_msg, mux_value_int)
              ELSE c
    IN  IF mux_signal = None THEN c
        ELSE IF name \notin DOMAIN decoded THEN c
        ELSE IF cache_key \in DOMAIN c1.events
        THEN emit_signals(c1, c1.events[cache_key],
                          convert_signals(dbc_msg, decoded, FALSE, Some(mux_value_int)),
                          timestamp_ns, raises)
        ELSE c1

\* variant of decode_and_emit_message: an ID that is not in the database is
\* counted as a decode error
decode_and_emit_message_key_as_error(c, msg, timestamp_ns) ==
    LET d == decode_message(msg)
        c1 == Bump(c, "messages_decoded")
        dbc_msg == messages_by_id[msg.arbitration_id]
        c2 == emit_base_signals(c1, dbc_msg, d.decoded, timestamp_ns,
                                "base" \in msg.raises)
    IN  IF d.status = "KeyError" THEN Bump(c, "decode_errors")
        ELSE IF d.status = "DecodeError" THEN Bump(c, "decode_errors")
        ELSE IF msg.arbitration_id \notin DOMAIN messages_by_id
        THEN Bump(c1, "unknown_messages")
        ELSE IF is_multiplexed(dbc_msg)
        THEN emit_multiplexed_signals(c2, dbc_msg, d.decoded, timestamp_ns,
                                      "mux" \in msg.raises)
        ELSE c2

\* variant of decode_and_emit_message: an error of the base emission is not
\* caught by _emit_signals but by the handler around the frame
decode_and_emit_message_abort(c, msg, timestamp_ns) ==
    LET d == decode_message(msg)
        c1 == Bump(c, "messages_decoded")
        dbc_msg == messages_by_id[msg.arbitration_id]
        c2 == emit_base_signals(c1, dbc_msg, d.decoded, timestamp_ns, FALSE)
    IN  IF d.status = "KeyError" THEN Bump(c, "unknown_messages")
        ELSE IF d.status = "DecodeError" THEN Bump(c, "decode_errors")
        ELSE IF msg.arbitration_id \notin DOMAIN messages_by_id
        THEN Bump(c1, "unknown_messages")
        ELSE IF "base" \in msg.raises THEN Bump(c1, "decode_errors")
        ELSE IF is_multiplexed(dbc_msg)
        THEN emit_multiplexed_signals(c2, dbc_msg, d.decoded, timestamp_ns,
                                      "mux" \in msg.raises)
        ELSE c2

\* variant of decode_and_emit_message: the frame is counted as decoded
\* before the database is asked for its ID
decode_and_emit_message_count_first(c, msg, timestamp_ns) ==
    LET d == decode_message(msg)
        c1 == Bump(c, "messages_decoded")
        dbc_msg == messages_by_id[msg.arbitration_id]
        c2 == emit_base_signals(c1, dbc_msg, d.decoded, timestamp_ns,
                                "base" \in msg.raises)
    IN  IF d.status = "KeyError" THEN Bump(c1, "unknown_messages")
        ELSE IF d.status = "DecodeError" THEN Bump(c, "decode_errors")
        ELSE IF msg.arbitration_id \notin DOMAIN messages_by_id
        THEN Bump(c1, "unknown_messages")
        ELSE IF is_multiplexed(dbc_msg)
        THEN emit_multiplexed_signals(c2, dbc_msg, d.decoded, timestamp_ns,
                                      "mux" \in msg.raises)
        ELSE c2

\* _decode_and_emit_message
decode_and_emit_message(c, msg, timestamp_ns) ==
    LET d == decode_message(msg)
        c1 == Bump(c, "messages_decoded")
        dbc_msg == messages_by_id[msg.arbitration_id]
        c2 == emit_base_signals(c1, dbc_msg, d.decoded, timestamp_ns,
                                "base" \in msg.raises)
    IN  IF d.status = "KeyError" THEN Bump(c, "unknown_messages")
        ELSE IF d.status = "DecodeError" THEN Bump(c, "decode_errors")
        ELSE IF msg.arbitration_id \notin DOMAIN messages_by_id
        THEN Bump(c1, "unknown_messages")
        ELSE IF is_multiplexed(dbc_msg)
        THEN emit_multiplexed_signals(c2, dbc_msg, d.decoded, timestamp_ns,
                                      "mux" \in msg.raises)
        ELSE c2

\* _emit_raw_frame: the raw emission, if raw logging is enabled
emit_raw_frame(msg, timestamp_ns) ==
    IF ~log_raw_frames THEN None
    ELSE Some([arbitration_id |-> msg.arbitration_id, dlc |-> msg.dlc,
               timestamp |-> timestamp_ns])

Codec == [metrics |-> metrics, events |-> events,
          source_events |-> source_events, emits |-> << >>]

\* _handle_message: the codec record after the frame, with the timestamp
\* state and the raw emission
handle_message(msg) ==
    LET c0 == Bump(Codec, "messages_received")
        t == get_timestamp(timestamp_mode, TsState, msg.timestamp, now)
    IN  [c |-> decode_and_emit_message(c0, msg, t.result),
         t |-> t,
         raw |-> emit_raw_frame(msg, t.result)]

(***************************************************************************)
(* Frames offered to the callback.  Fields that cannot matter for a frame  *)
(* (the payload of an undecodable frame, the selector of a message that    *)
(* has none) are fixed, so each frame is offered once.  codec.py reads the *)
(* declared length for the raw emission only: an oversized one is offered  *)
(* with one payload per frame ID and selector value.                       *)
(***************************************************************************)
FrameCanonical(f) ==
    LET decodes == f.arbitration_id \in FrameIds /\ ~f.malformed
        msg == messages_by_id[f.arbitration_id]
    IN  /\ ~decodes => f.sel = 0 /\ f.val = 0 /\ f.raises = {}
        /\ (decodes /\ ~is_multiplexed(msg)) => f.sel = 0 /\ "mux" \notin f.raises
        /\ (decodes /\ msg.signals = << >>) => f.val = 0 /\ f.raises = {}
        /\ f.dlc > 8 => f.val = 0 /\ f.raises = {}

\* self.fd_mode = config.get("fd_mode", False): the codec modelled is in
\* classic mode
fd_mode == FALSE

\* declared lengths of the frames offered: the largest of a classic frame and
\* one more (the DLC field of a classic frame can say 9 to 15)
DlcValues == {8, 9}

FramesWith(timestamps) ==
    {f \in [arbitration_id : FrameIds \cup {UnknownId},
            timestamp : timestamps,
            dlc : DlcValues,
            sel : 0..MaxSel,
            val : RawValues,
            malformed : BOOLEAN,
            raises : SUBSET {"base", "mux"}] : FrameCanonical(f)}

(***************************************************************************)
(* CanCodec.start: the transport configuration.  self.config is the record *)
(* [fields, config_json]: fields maps the keys that are present to their   *)
(* values (all written as strings), config_json is the text of the         *)
(* override blob, a sequence of JSON tokens, or None when the key is       *)
(* absent.                                                                 *)
(***************************************************************************)
NoFields == [k \in {} |-> ""]

JsonPunctuation == {"{", "}", "[", "]", ":", ","}

\* json.loads of the members of an object, key : value separated by commas;
\* a key given twice keeps its last value
RECURSIVE json_members(_, _)
json_members(tokens, acc) ==
    IF /\ Len(tokens) >= 3
       /\ tokens[1] \notin JsonPunctuation
       /\ tokens[2] = ":"
       /\ tokens[3] \notin JsonPunctuation
    THEN LET seen == (tokens[1] :> tokens[3]) @@ acc
         IN  IF Len(tokens) = 3
             THEN [ok |-> TRUE, object |-> TRUE, value |-> seen]
             ELSE IF tokens[4] = ","
             THEN json_members(SubSeq(tokens, 5, Len(tokens)), seen)
             ELSE [ok |-> FALSE, object |-> FALSE, value |-> NoFields]
    ELSE [ok |-> FALSE, object |-> FALSE, value |-> NoFields]

\* json.loads(text): an object of string members, an empty list, or a
\* JSONDecodeError (ok = FALSE)
json_loads(text) ==
    IF text = <<"[", "]">>
    THEN [ok |-> TRUE, object |-> FALSE, value |-> NoFields]
    ELSE IF Len(text) >= 2 /\ text[1] = "{" /\ text[Len(text)] = "}"
    THEN IF Len(text) = 2
         THEN [ok |-> TRUE, object |-> TRUE, value |-> NoFields]
         ELSE json_members(SubSeq(text, 2, Len(text) - 1), NoFields)
    ELSE [ok |-> FALSE, object |-> FALSE, value |-> NoFields]

\* self.fd_mode = config.get("fd_mode", False), as start() reads it
config_fd_mode(cfg) ==
    "fd_mode" \in DOMAIN cfg.fields /\ cfg.fields["fd_mode"] = "True"

\* bus_config before the blob is merged: interface and channel, the optional
\* receive_own_messages and bitrate, and in FD mode fd and the optional
\* data_bitrate
structured_config(cfg) ==
    LET f == cfg.fields
        keys == {"interface", "channel"}
                \cup ({"receive_own_messages", "bitrate"} \cap DOMAIN f)
                \cup (IF config_fd_mode(cfg)
                      THEN {"fd"} \cup ({"data_bitrate"} \cap DOMAIN f)
                      ELSE {})
    IN  [k \in keys |-> IF k = "fd" THEN "True" ELSE f[k]]

\* variant of make_bus_config: the structured fields win over the blob
make_bus_config_structured_wins(cfg) ==
    LET base == structured_config(cfg)
        j == json_loads(Val(cfg.config_json))
    IN  IF cfg.config_json = None \/ cfg.config_json = Some(<< >>)
        THEN [raised |-> "none", kwargs |-> base]
        ELSE IF ~j.ok THEN [raised |-> "ValueError", kwargs |-> base]
        ELSE IF ~j.object THEN [raised |-> "AttributeError", kwargs |-> base]
        ELSE [raised |-> "none", kwargs |-> base @@ j.value]

\* bus_config as start() passes it to can.Bus, or what building it raised:
\* ValueError for a blob that is not JSON, AttributeError for a blob that is
\* JSON but has no keys()
make_bus_config(cfg) ==
    LET base == structured_config(cfg)
        j == json_loads(Val(cfg.config_json))
    IN  IF cfg.config_json = None \/ cfg.config_json = Some(<< >>)
        THEN [raised |-> "none", kwargs |-> base]
        ELSE IF ~j.ok THEN [raised |-> "ValueError", kwargs |-> base]
        ELSE IF ~j.object THEN [raised |-> "AttributeError", kwargs |-> base]
        ELSE [raised |-> "none", kwargs |-> j.value @@ base]

\* configurations offered to start(): interface and channel with every
\* choice of the optional structured fields, and as blob none, an empty
\* text, an empty object, objects that add and override keys (one giving a
\* key twice), two texts that are not JSON and one that is JSON but no object
ConfigFields ==
    LET base == ("interface" :> "socketcan" @@ "channel" :> "can0")
        optional == ("bitrate" :> "500000" @@ "receive_own_messages" :> "True"
                     @@ "data_bitrate" :> "2000000" @@ "fd_mode" :> "True")
    IN  {[k \in DOMAIN base \cup present |->
             IF k \in DOMAIN base THEN base[k] ELSE optional[k]] :
         present \in SUBSET DOMAIN optional}

ConfigBlobs ==
    {None, Some(<< >>), Some(<<"{", "}">>),
     Some(<<"{", "bitrate", ":", "250000", "}">>),
     Some(<<"{", "channel", ":", "can1", ",", "app_name", ":", "probe", "}">>),
     Some(<<"{", "fd", ":", "False", ",", "bitrate", ":", "1", ",", "bitrate", ":", "2", "}">>),
     Some(<<"{", "bitrate", "}">>),
     Some(<<"{", "bitrate", ":", "250000", ",", "}">>),
     Some(<<"[", "]">>)}

Configs == [fields : ConfigFields, config_json : ConfigBlobs]

\* the configuration of the codecs whose transport configuration is not
\* under study
DefaultConfig ==
    [fields |-> ("interface" :> "socketcan" @@ "channel" :> "can0"),
     config_json |-> None]

(***************************************************************************)
(* CanCodec.start: the retry loop around the can.Bus call.                 *)
(* outcomes[i] is what the transport would answer to the i-th open of      *)
(* this call: "ok", "CanError", or "other" (any other exception).          *)
(* The result lists the opens made and what the call raised.               *)
(***************************************************************************)
max_retries == 3

\* Answers of the transport to successive opens: some transport errors, then
\* possibly another exception, then successes.  What follows the first answer
\* that is not a transport error is never asked for by a correct start().
OpenOutcomes ==
    {o \in [1..(max_retries + 1) -> {"ok", "CanError", "other"}] :
        \A i \in 1..max_retries :
            /\ o[i] = "ok" => o[i + 1] = "ok"
            /\ o[i] = "other" => o[i + 1] = "ok"
            /\ o[i + 1] = "CanError" => o[i] = "CanError"}

RECURSIVE start_from(_, _, _)
start_from(attempt, outcomes, calls) ==
    IF attempt >= max_retries
    THEN [calls |-> calls, ok |-> FALSE, raised |-> "none"]
    ELSE LET r == outcomes[attempt + 1]
             made == Append(calls, r)
         IN  IF r = "ok" THEN [calls |-> made, ok |-> TRUE, raised |-> "none"]
             ELSE IF r = "other" THEN [calls |-> made, ok |-> FALSE, raised |-> "other"]
             ELSE IF attempt = max_retries - 1
             THEN [calls |-> made, ok |-> FALSE, raised |-> "CanError"]
             ELSE start_from(attempt + 1, outcomes, made)

\* variant of start_attempts: the retry loop does not return at a success
RECURSIVE start_from_no_return(_, _, _)
start_from_no_return(attempt, outcomes, calls) ==
    IF attempt >= max_retries
    THEN [calls |-> calls, ok |-> TRUE, raised |-> "none"]
    ELSE LET r == outcomes[attempt + 1]
             made == Append(calls, r)
         IN  IF r = "ok" THEN start_from_no_return(attempt + 1, outcomes, made)
             ELSE IF r = "other" THEN [calls |-> made, ok |-> FALSE, raised |-> "other"]
             ELSE IF attempt = max_retries - 1
             THEN [calls |-> made, ok |-> FALSE, raised |-> "CanError"]
             ELSE start_from_no_return(attempt + 1, outcomes, made)

start_attempts_no_return(outcomes) == start_from_no_return(0, outcomes, << >>)

\* the opens of a start() whose bus_config was built
start_attempts(outcomes) == start_from(0, outcomes, << >>)

\* start() up to its return: a bus_config that cannot be built raises before
\* any open
start_result(outcomes) ==
    LET b == make_bus_config(config)
    IN  IF b.raised # "none"
        THEN [calls |-> << >>, ok |-> FALSE, raised |-> b.raised]
        ELSE start_attempts(outcomes)

\* the handle a successful open returns: the next unused one
NewHandle == Len(bus_shutdowns) + 1

\* start() as a whole: self.bus and self.running are assigned on success only
start(outcomes) ==
    LET r == start_result(outcomes)
    IN  [r |-> r,
         bus |-> IF r.ok THEN Some(NewHandle) ELSE bus,
         running |-> IF r.ok THEN TRUE ELSE running,
         bus_shutdowns |-> IF r.ok THEN Append(bus_shutdowns, 0) ELSE bus_shutdowns,
         bus_state |-> IF r.ok THEN "ACTIVE" ELSE bus_state,
         bus_config |-> IF r.calls # << >>
                        THEN Some(make_bus_config(config).kwargs) ELSE bus_config]

\* a start() whose every outcome the bounds allow
CanStart(outcomes) ==
    start_result(outcomes).ok => Len(bus_shutdowns) < MaxOpens

\* variant of shutdown_bus: the handle is shut down but stays held
shutdown_bus_keep(b, counts) ==
    IF b # None
    THEN [bus |-> b, bus_shutdowns |-> [counts EXCEPT ![Val(b)] = @ + 1]]
    ELSE [bus |-> b, bus_shutdowns |-> counts]

\* if self.bus: self.bus.shutdown(); self.bus = None
shutdown_bus(b, counts) ==
    IF b # None
    THEN [bus |-> None, bus_shutdowns |-> [counts EXCEPT ![Val(b)] = @ + 1]]
    ELSE [bus |-> b, bus_shutdowns |-> counts]

\* task.cancel(): a request, delivered at the task's next wake-up; no effect
\* on a task that is done
cancel(t) == IF t.pc = "done" THEN t ELSE [t EXCEPT !.cancelled = TRUE]

NoTasks == [n \in {} |-> 0]

Held(pt) == {pt[n] : n \in DOMAIN pt}

\* for task_name, task in self.periodic_tasks.items(): task.cancel()
cancel_all(ts, pt) ==
    [i \in DOMAIN ts |-> IF i \in Held(pt) THEN cancel(ts[i]) ELSE ts[i]]

\* variant of stop_notifier: the registration is left as it is
stop_notifier_none(ns, n) == ns

\* notifier.stop(): the registration ends and its reader thread with it
stop_notifier(ns, n) ==
    IF n = None THEN ns
    ELSE [ns EXCEPT ![Val(n)] = [@ EXCEPT !.stopped = TRUE, !.alive = FALSE]]

\* variant of new_notifier: the codec is registered twice
new_notifier_twice(ns, b) ==
    ns \o << [bus |-> Val(b), stopped |-> FALSE, alive |-> TRUE],
             [bus |-> Val(b), stopped |-> FALSE, alive |-> TRUE] >>

\* can.Notifier(self.bus, [self])
new_notifier(ns, b) == Append(ns, [bus |-> Val(b), stopped |-> FALSE, alive |-> TRUE])

(***************************************************************************)
(* Caller operations.                                                      *)
(***************************************************************************)
Did(op, arg, result) ==
    [op |-> op, arg |-> arg, result |-> result, calls |-> << >>, sent |-> None]

\* a step of the loop, of a task or of the environment
Other == Did("other", "", "none")

\* start() called by the owner of the codec, on a codec that holds no bus
Start ==
    \E outcomes \in OpenOutcomes :
        /\ bus = None /\ ~running
        /\ CanStart(outcomes)
        /\ LET st == start(outcomes)
           IN  /\ bus' = st.bus
               /\ running' = st.running
               /\ bus_shutdowns' = st.bus_shutdowns
               /\ bus_state' = st.bus_state
               /\ bus_config' = st.bus_config
               /\ last' = [op |-> "start", arg |-> "", calls |-> st.r.calls, sent |-> None,
                           result |-> IF st.r.ok THEN "ok" ELSE st.r.raised]
               /\ stop_requested' = (stop_requested /\ ~st.r.ok)
        /\ reopen_failed' = FALSE
        /\ UNCHANGED <<configVars, auxVars, timeVars, frameVars, loopVars, taskVars>>

\* what stop() and the health-monitor loop write, as one value
Cur ==
    [running |-> running, bus |-> bus, bus_shutdowns |-> bus_shutdowns,
     tasks |-> tasks, periodic_tasks |-> periodic_tasks, notifiers |-> notifiers]

Becomes(s) ==
    /\ running' = s.running
    /\ bus' = s.bus
    /\ bus_shutdowns' = s.bus_shutdowns
    /\ tasks' = s.tasks
    /\ periodic_tasks' = s.periodic_tasks
    /\ notifiers' = s.notifiers

\* the body of stop(): running cleared, every periodic task cancelled and
\* the table cleared, the bus shut down and released
stop(s) ==
    LET sh == shutdown_bus(s.bus, s.bus_shutdowns)
    IN  [s EXCEPT !.running = FALSE,
                  !.tasks = cancel_all(s.tasks, s.periodic_tasks),
                  !.periodic_tasks = NoTasks,
                  !.bus = sh.bus,
                  !.bus_shutdowns = sh.bus_shutdowns]

\* stop() called by the owner of the codec
Stop ==
    /\ Becomes(stop(Cur))
    /\ last' = Did("stop", "", "none")
    /\ stop_requested' = TRUE
    /\ reopen_failed' = FALSE
    /\ UNCHANGED <<configVars, auxVars, timeVars, frameVars, loop_pc, notifier, bus_state,
                   bus_config>>

\* variant of notifier_stop: the registration is not stopped
notifier_stop_none(s, n) == s

\* notifier.stop() as the loop calls it: the registration ends; CanCodec is
\* a can.Listener of the notifier and stop is its method, so a library that
\* stops the listeners of a stopped notifier runs stop() of the codec
notifier_stop(s, n) ==
    LET ended == [s EXCEPT !.notifiers = stop_notifier(s.notifiers, n)]
    IN  IF stops_listeners /\ n # None THEN stop(ended) ELSE ended

(***************************************************************************)
(* The health-monitor loop, _run_async.  Its steps are the code between    *)
(* two awaits.                                                             *)
(***************************************************************************)
\* the loop condition, and the finally clause when it ends:
\* while self.running: await asyncio.sleep(5.0) ... finally: notifier.stop()
LoopCheck(s, n) ==
    IF s.running
    THEN [pc |-> "sleep5", s |-> s]
    ELSE [pc |-> "done", s |-> notifier_stop(s, n)]

\* _run_async up to its first await; run() is called once
RunAsync ==
    /\ loop_pc = "idle"
    /\ IF bus = None
       THEN /\ loop_pc' = "done"
            /\ UNCHANGED <<notifier, notifiers, running, bus, bus_shutdowns, taskVars>>
       ELSE LET ns == new_notifier(notifiers, bus)
                n == Some(Len(ns))
                nxt == LoopCheck([Cur EXCEPT !.notifiers = ns], n)
            IN  /\ notifier' = n
                /\ Becomes(nxt.s)
                /\ loop_pc' = nxt.pc
    /\ last' = Other
    /\ UNCHANGED <<configVars, auxVars, timeVars, frameVars, bus_state, bus_config,
                   stop_requested, reopen_failed>>

\* _check_notifier_health
check_notifier_health(n, ns) == n # None /\ ns[Val(n)].alive

\* variant of check_bus_health: the reported state is read of every transport
check_bus_health_state ==
    IF bus = None THEN FALSE
    ELSE bus_state = "ACTIVE"

\* _check_bus_health
check_bus_health ==
    IF bus = None THEN FALSE
    ELSE IF is_virtual THEN TRUE
    ELSE bus_state = "ACTIVE"

\* the loop wakes from sleep(5.0): the probe, and on failure
\* _handle_reconnection / _reconnect_bus up to the await of sleep(1)
ProbeTick ==
    /\ loop_pc = "sleep5"
    /\ IF check_notifier_health(notifier, notifiers) /\ check_bus_health
       THEN LET nxt == LoopCheck(Cur, notifier)
            IN  /\ loop_pc' = nxt.pc
                /\ Becomes(nxt.s)
       ELSE LET stopped == notifier_stop(Cur, notifier)
                sh == shutdown_bus(stopped.bus, stopped.bus_shutdowns)
            IN  /\ Becomes([stopped EXCEPT !.bus = sh.bus,
                                           !.bus_shutdowns = sh.bus_shutdowns])
                /\ loop_pc' = "reconnect_wait"
    /\ last' = Did("probe", "", "none")
    /\ UNCHANGED <<configVars, auxVars, timeVars, frameVars, bus_state, bus_config,
                   notifier, stop_requested, reopen_failed>>

\* the loop wakes from sleep(1) inside _reconnect_bus: self.start(), the new
\* notifier on success, and the loop condition
ReconnectWake ==
    \E outcomes \in OpenOutcomes :
        /\ loop_pc = "reconnect_wait"
        /\ CanStart(outcomes)
        /\ LET st == start(outcomes)
               ns == IF st.r.ok THEN new_notifier(notifiers, st.bus) ELSE notifiers
               n == IF st.r.ok THEN Some(Len(ns)) ELSE notifier
               nxt == LoopCheck([Cur EXCEPT !.running = st.running,
                                            !.bus = st.bus,
                                            !.bus_shutdowns = st.bus_shutdowns,
                                            !.notifiers = ns], n)
           IN  /\ Becomes(nxt.s)
               /\ bus_state' = st.bus_state
               /\ bus_config' = st.bus_config
               /\ notifier' = n
               /\ loop_pc' = nxt.pc
               /\ reopen_failed' = ~st.r.ok
               /\ last' = [op |-> "reconnect", arg |-> "", calls |-> st.r.calls, sent |-> None,
                           result |-> IF st.r.ok THEN "ok" ELSE st.r.raised]
        /\ UNCHANGED <<configVars, auxVars, timeVars, frameVars, stop_requested>>

(***************************************************************************)
(* The transport and the notifier thread as an environment.                *)
(***************************************************************************)
\* the held transport changes the state it reports
BusStateChange ==
    /\ bus # None
    /\ bus_state' = IF bus_state = "ACTIVE" THEN "PASSIVE" ELSE "ACTIVE"
    /\ last' = Other
    /\ UNCHANGED <<configVars, auxVars, timeVars, frameVars, loopVars, taskVars,
                   running, bus, bus_shutdowns, bus_config, stop_requested, reopen_failed>>

\* the reader thread of the loop's notifier dies
ReaderDies ==
    /\ notifier # None
    /\ notifiers[Val(notifier)].alive
    /\ notifiers' = [notifiers EXCEPT ![Val(notifier)].alive = FALSE]
    /\ last' = Other
    /\ UNCHANGED <<configVars, auxVars, timeVars, frameVars, busVars, taskVars,
                   loop_pc, notifier, stop_requested, reopen_failed>>

(***************************************************************************)
(* Periodic transmission.                                                  *)
(***************************************************************************)
\* the largest standard (11-bit) and extended (29-bit) message IDs
MaxStandardId == 2047
MaxExtendedId == 536870911

\* message IDs offered to start_periodic: one valid as standard and as
\* extended ID, one valid as extended ID only
MsgIds == {256, MaxStandardId + 1}

\* message IDs offered where the ID check is under study: those, and one
\* valid as neither
SendIds == MsgIds \cup {MaxExtendedId + 1}

\* variant of max_id_of: every ID is held against the extended maximum
max_id_of_extended(extended_id) == MaxExtendedId

\* max_id = 0x1FFFFFFF if extended_id else 0x7FF
max_id_of(extended_id) == IF extended_id THEN MaxExtendedId ELSE MaxStandardId

\* the "id" send_message returns: f"0x{msg_id:04x}", or 08x if extended_id
sent_id_of(msg_id, extended_id) ==
    "0x" \o (IF extended_id THEN HexPad(msg_id, 8) ELSE HexPad(msg_id, 4))

\* send_message(msg_id, data, extended_id); data_ok says that data is a hex
\* string, send_ok that bus.send does not raise (neither is asked for by a
\* call that returns before).  The step records the ID as the call would
\* return it and, as task 0, the frame sent.
SendMessage ==
    \E msg_id \in SendIds, extended_id \in BOOLEAN, data_ok \in BOOLEAN, send_ok \in BOOLEAN :
        LET rejected == bus = None \/ msg_id > max_id_of(extended_id)
            sent == ~rejected /\ data_ok /\ send_ok
        IN  /\ rejected => data_ok
            /\ (rejected \/ ~data_ok) => send_ok
            /\ last' = [op |-> "send_message", arg |-> sent_id_of(msg_id, extended_id),
                        result |-> IF sent THEN "sent" ELSE "error", calls |-> << >>,
                        sent |-> IF sent THEN Some(<<0, Val(bus)>>) ELSE None]
            /\ UNCHANGED <<configVars, auxVars, timeVars, frameVars, busVars, loopVars,
                           taskVars, stop_requested, reopen_failed>>

\* task_name = f"periodic_{msg_id:08x}" if extended_id else f"periodic_{msg_id:04x}"
task_name_of(msg_id, extended_id) ==
    "periodic_" \o (IF extended_id THEN HexPad(msg_id, 8) ELSE HexPad(msg_id, 4))

\* task names offered to stop_periodic: every derivable one and one that is not
TaskNames ==
    {task_name_of(m, e) : m \in MsgIds, e \in BOOLEAN} \cup {"periodic_ffff"}

\* variant of cancel_existing: the task held under the name is left running
cancel_existing_none(ts, pt, task_name) == ts

\* the task start_periodic cancels before it creates the new one
cancel_existing(ts, pt, task_name) ==
    IF task_name \in DOMAIN pt
    THEN [ts EXCEPT ![pt[task_name]] = cancel(@)]
    ELSE ts

\* self.periodic_tasks[task_name] = task
install_task(pt, task_name, task) == (task_name :> task) @@ pt

\* start_periodic(msg_id, data, period, extended_id); data_ok says that data
\* is a hex string, create_ok that asyncio.create_task does not raise
StartPeriodicOf(ids, max_tasks) ==
    \E msg_id \in ids, extended_id \in BOOLEAN, data_ok \in BOOLEAN, create_ok \in BOOLEAN :
        LET max_id == max_id_of(extended_id)
            task_name == task_name_of(msg_id, extended_id)
            rejected == bus = None \/ ~running \/ msg_id > max_id \/ ~data_ok
            cancelled == cancel_existing(tasks, periodic_tasks, task_name)
        IN  /\ (~rejected /\ create_ok) => Len(tasks) < max_tasks
            /\ IF rejected
               THEN /\ UNCHANGED <<tasks, periodic_tasks>>
                    /\ last' = Did("start_periodic", task_name, "error")
               ELSE IF ~create_ok
               THEN /\ tasks' = cancelled
                    /\ UNCHANGED periodic_tasks
                    /\ last' = Did("start_periodic", task_name, "error")
               ELSE /\ tasks' = Append(cancelled,
                                       [name |-> task_name, cancelled |-> FALSE,
                                        pc |-> "ready"])
                    /\ periodic_tasks' =
                           install_task(periodic_tasks, task_name, Len(tasks) + 1)
                    /\ last' = Did("start_periodic", task_name, "started")
            /\ UNCHANGED <<configVars, auxVars, timeVars, frameVars, busVars, loopVars,
                           stop_requested, reopen_failed>>

StartPeriodic == StartPeriodicOf(MsgIds, MaxTasks)

\* variant of remove_task: the map is cleared
remove_task_all(pt, task_name) == NoTasks

\* del self.periodic_tasks[task_name]
remove_task(pt, task_name) == [n \in DOMAIN pt \ {task_name} |-> pt[n]]

\* stop_periodic(task_name)
StopPeriodicOf(names) ==
    \E task_name \in names :
        /\ IF task_name \in DOMAIN periodic_tasks
           THEN /\ tasks' = [tasks EXCEPT ![periodic_tasks[task_name]] = cancel(@)]
                /\ periodic_tasks' = remove_task(periodic_tasks, task_name)
                /\ last' = Did("stop_periodic", task_name, "stopped")
           ELSE /\ UNCHANGED <<tasks, periodic_tasks>>
                /\ last' = Did("stop_periodic", task_name, "error")
        /\ UNCHANGED <<configVars, auxVars, timeVars, frameVars, busVars, loopVars,
                       stop_requested, reopen_failed>>

StopPeriodic == StopPeriodicOf(TaskNames)

\* variant of TaskStep: a send that raises ends the task
TaskStep_until_error ==
    \E i \in DOMAIN tasks, send_ok \in BOOLEAN :
        /\ tasks[i].pc \in {"ready", "sleeping"}
        /\ (bus = None \/ tasks[i].cancelled \/ ~running) => send_ok
        /\ IF tasks[i].cancelled \/ ~running
           THEN /\ tasks' = [tasks EXCEPT ![i].pc = "done"]
                /\ last' = Did("tick", tasks[i].name, "ended")
           ELSE /\ tasks' = [tasks EXCEPT ![i].pc = IF send_ok THEN "sleeping" ELSE "done"]
                /\ last' = [op |-> "tick", arg |-> tasks[i].name, calls |-> << >>,
                            result |-> IF bus = None THEN "skipped"
                                       ELSE IF send_ok THEN "sent" ELSE "send_error",
                            sent |-> IF bus # None /\ send_ok
                                     THEN Some(<<i, Val(bus)>>)
                                     ELSE None]
        /\ UNCHANGED <<configVars, auxVars, timeVars, frameVars, busVars, loopVars,
                       periodic_tasks, stop_requested, reopen_failed>>

\* _periodic_send_task from one await to the next (or from its creation to
\* its first await); send_ok says that bus.send does not raise
TaskStep ==
    \E i \in DOMAIN tasks, send_ok \in BOOLEAN :
        /\ tasks[i].pc \in {"ready", "sleeping"}
        /\ (bus = None \/ tasks[i].cancelled \/ ~running) => send_ok
        /\ IF tasks[i].cancelled \/ ~running
           THEN /\ tasks' = [tasks EXCEPT ![i].pc = "done"]
                /\ last' = Did("tick", tasks[i].name, "ended")
           ELSE /\ tasks' = [tasks EXCEPT ![i].pc = "sleeping"]
                /\ last' = [op |-> "tick", arg |-> tasks[i].name, calls |-> << >>,
                            result |-> IF bus = None THEN "skipped"
                                       ELSE IF send_ok THEN "sent" ELSE "send_error",
                            sent |-> IF bus # None /\ send_ok
                                     THEN Some(<<i, Val(bus)>>)
                                     ELSE None]
        /\ UNCHANGED <<configVars, auxVars, timeVars, frameVars, busVars, loopVars,
                       periodic_tasks, stop_requested, reopen_failed>>

(***************************************************************************)
(* Frame delivery and direct timestamp conversion.                         *)
(***************************************************************************)
\* timestamps of the frames offered to the callback
FrameTimestamps == {Some(Seconds(10))}

Frames == FramesWith(FrameTimestamps)

\* the <<sample, result>> of a get_timestamp call that returned a timestamp
Converted(hw_timestamp, result) ==
    IF hw_timestamp = None \/ result = None THEN {}
    ELSE {<<Val(hw_timestamp), Val(result)>>}

\* the state after _handle_message(msg) has returned h
Handled(msg, h) ==
    /\ metrics' = h.c.metrics
    /\ events' = h.c.events
    /\ source_events' = h.c.source_events
    /\ last_emits' = h.c.emits
    /\ last_raw' = h.raw
    /\ hw_timestamp_offset' = h.t.offset
    /\ first_hw_timestamp' = h.t.first
    /\ ts_arg' = msg.timestamp
    /\ ts_result' = h.t.result
    /\ ts_seen' = ts_seen \cup Converted(msg.timestamp, h.t.result)
    /\ last_frame' = Some(msg)

\* on_message_received / _handle_message for one frame
HandleMessage ==
    \E msg \in Frames :
        /\ metrics.messages_received < MaxFrames
        /\ Handled(msg, handle_message(msg))
        /\ UNCHANGED <<configVars, auxVars, lifeVars, now, ts_calls>>

\* get_timestamp(hw_timestamp) called directly
GetTimestamp ==
    \E hw_timestamp \in {None} \cup {Some(x) : x \in Samples} :
        /\ ts_calls < MaxCalls
        /\ ts_calls' = ts_calls + 1
        /\ LET t == get_timestamp(timestamp_mode, TsState, hw_timestamp, now)
           IN  /\ hw_timestamp_offset' = t.offset
               /\ first_hw_timestamp' = t.first
               /\ ts_result' = t.result
               /\ ts_seen' = ts_seen \cup Converted(hw_timestamp, t.result)
        /\ ts_arg' = hw_timestamp
        /\ UNCHANGED <<configVars, auxVars, frameVars, lifeVars, now>>

\* the wall clock advances by a third of a second
Tick ==
    /\ now < Wall0 + MaxTicks
    /\ now' = now + 1
    /\ UNCHANGED <<configVars, auxVars, frameVars, lifeVars,
                   hw_timestamp_offset, first_hw_timestamp, ts_calls, ts_arg, ts_result,
                   ts_seen>>

\* frames a registered callback is given while the bus lifecycle runs: one
\* that decodes, one of an unknown ID and one that does not decode
LiveFrames ==
    {f \in Frames :
        /\ f.dlc = 8 /\ f.sel = 0 /\ f.val = 0 /\ f.raises = {}
        /\ f.arbitration_id \in {100, UnknownId}}

\* a registration delivers frames while it has not been stopped and its
\* reader thread lives
Active(n) == ~n.stopped /\ n.alive

\* on_message_received, called by the reader thread of a registration
FrameCallback ==
    \E msg \in LiveFrames :
        /\ \E i \in DOMAIN notifiers : Active(notifiers[i])
        /\ metrics.messages_received < MaxLiveFrames
        /\ Handled(msg, handle_message(msg))
        /\ last' = Did("callback", "", "none")
        /\ UNCHANGED <<configVars, auxVars, busVars, loopVars, taskVars, now, ts_calls,
                       stop_requested, reopen_failed>>

\* variant of Joined: notifier.stop() returns while a reader thread is in
\* the callback
Joined_no_wait == TRUE

\* notifier.stop() joins the reader thread of the registration: a step stops
\* no registration whose thread is in the callback
Joined == \A i \in DOMAIN delivery : notifiers'[i].stopped = notifiers[i].stopped

\* the reader thread of a registration takes a frame and enters
\* _handle_message: the read of self.metrics.messages_received += 1
DeliverBegin ==
    \E msg \in LiveFrames, i \in DOMAIN notifiers :
        /\ Active(notifiers[i])
        /\ i \notin DOMAIN delivery
        /\ delivered < MaxLiveFrames
        /\ delivery' = (i :> [msg |-> msg, seen |-> metrics.messages_received]) @@ delivery
        /\ delivered' = delivered + 1
        /\ last' = Other
        /\ UNCHANGED <<configVars, signal, data_type, named, event_names, pairVars,
                       timeVars, frameVars, busVars, loopVars, taskVars, stop_requested,
                       reopen_failed>>

\* the write of the += and the rest of _handle_message
DeliverEnd ==
    \E i \in DOMAIN delivery :
        LET msg == delivery[i].msg
            h == handle_message(msg)
        IN  /\ Handled(msg, [h EXCEPT !.c.metrics.messages_received =
                                          delivery[i].seen + 1])
            /\ delivery' = [j \in DOMAIN delivery \ {i} |-> delivery[j]]
            /\ last' = Did("callback", "", "none")
            /\ UNCHANGED <<configVars, signal, data_type, named, event_names, delivered,
                           pairVars, busVars, loopVars, taskVars, now, ts_calls, stop_requested,
                           reopen_failed>>

\* round(a / b, digits) as a whole number of units of 10^-digits, a already
\* counted in those units: the nearest, a tie to the even one
Round(a, b) ==
    LET q == a \div b
        r == a % b
    IN  IF 2 * r < b THEN q
        ELSE IF 2 * r > b THEN q + 1
        ELSE IF q % 2 = 0 THEN q ELSE q + 1

\* self.start_time = time.time() at construction
start_time == Wall0

Max(a, b) == IF a >= b THEN a ELSE b

\* what get_metrics returns: the counters, the uptime in hundredths of a
\* second, the rate in hundredths of a message per second and the success
\* rate in ten-thousandths
get_metrics ==
    LET uptime == now - start_time
        messages_received == metrics.messages_received
    IN  [messages_received |-> metrics.messages_received,
         messages_decoded |-> metrics.messages_decoded,
         decode_errors |-> metrics.decode_errors,
         unknown_messages |-> metrics.unknown_messages,
         uptime_seconds |-> Round(100 * uptime, Seconds(1)),
         messages_per_second |->
             Round(100 * Seconds(1) * messages_received, Max(uptime, Seconds(1))),
         decode_success_rate |->
             Round(10000 * metrics.messages_decoded, Max(messages_received, 1))]

\* get_metrics(); the step records the dictionary returned
GetMetrics ==
    /\ last' = [op |-> "get_metrics", arg |-> "", result |-> "none", calls |-> << >>,
                sent |-> None, read |-> get_metrics]
    /\ UNCHANGED <<configVars, auxVars, timeVars, frameVars, busVars, loopVars, taskVars,
                   stop_requested, reopen_failed>>

\* cantools_signal_to_trace_type applied to the signal under study
MapSignal ==
    /\ signal # None /\ data_type = None
    /\ data_type' = Some(cantools_signal_to_trace_type(Val(signal)))
    /\ UNCHANGED <<configVars, timeVars, frameVars, lifeVars, signal, named, event_names,
                   threadVars, pairVars>>

(***************************************************************************)
(* The state after construction, CanCodec.__init__.                        *)
(***************************************************************************)
Codec0 == [metrics |-> Metrics0, events |-> NoEvents,
           source_events |-> << >>, emits |-> << >>]

\* if self.emit_schemas_on_init: self._generate_all_schemas()
init_schemas(eager) == IF eager THEN generate_all_schemas(Codec0) ELSE Codec0

\* messages to be named: standard and extended frame IDs of one to eight
\* hex digits, a selector with and without a label for the value 0, and
\* signals in the variants 0 and 12
NamedIds ==
    {<<291, FALSE>>, <<MaxStandardId, FALSE>>, <<291, TRUE>>, <<65536, TRUE>>,
     <<419364865, TRUE>>, <<MaxExtendedId, TRUE>>}

NamedMessages ==
    {[frame_id |-> id[1], is_extended_frame |-> id[2], name |-> n,
      signals |-> << Signal("sel", {}, TRUE, ch),
                     Signal("count", {}, FALSE, NoChoices),
                     Signal("x", {0, 12}, FALSE, NoChoices) >>] :
        id \in NamedIds, n \in {"Status", "Mux"}, ch \in {NoChoices, (0 :> "A")}}

\* the names under which _generate_base_schema and
\* _generate_mux_schema_for_value register the schemas of the message under
\* study
NameEvents ==
    /\ named # None /\ event_names = None
    /\ LET b == generate_base_schema(Codec0, Val(named).msg)
           v == generate_mux_schema_for_value(b, Val(named).msg, Val(named).mux_value)
       IN  event_names' =
               Some([base |-> b.source_events[1].name,
                     variant |-> IF Len(v.source_events) = 2
                                 THEN Some(v.source_events[2].name) ELSE None])
    /\ UNCHANGED <<configVars, timeVars, frameVars, lifeVars, signal, data_type, named,
                   threadVars, pairVars>>

NoDeliveries == [i \in {} |-> 0]

InitCodec ==
    /\ delivery = NoDeliveries /\ delivered = 0
    /\ run_log = << >> /\ first_run = None
    /\ timestamp_mode \in TimestampMode
    /\ emit_schemas_on_init \in BOOLEAN
    /\ log_raw_frames \in BOOLEAN
    /\ is_virtual \in BOOLEAN
    /\ hw_timestamp_offset = None
    /\ first_hw_timestamp = None
    /\ now = Wall0
    /\ ts_calls = 0
    /\ ts_arg = None
    /\ ts_result = None
    /\ ts_seen = {}
    /\ metrics = Metrics0
    /\ events = init_schemas(emit_schemas_on_init).events
    /\ source_events = init_schemas(emit_schemas_on_init).source_events
    /\ last_frame = None
    /\ last_emits = << >>
    /\ last_raw = None
    /\ running = FALSE
    /\ bus = None
    /\ bus_shutdowns = << >>
    /\ bus_state = "ACTIVE"
    /\ loop_pc = "idle"
    /\ notifier = None
    /\ notifiers = << >>
    /\ periodic_tasks = NoTasks
    /\ tasks = << >>
    /\ last = Did("init", "", "none")
    /\ stop_requested = FALSE
    /\ reopen_failed = FALSE
    /\ bus_config = None

\* frames given to the two codecs: every frame ID, selector value and way
\* of failing, one payload
PairFrames == {f \in Frames : f.dlc = 8 /\ f.val = 0}

\* the cache key under which an event is held
KeyOf(evs, event) == CHOOSE k \in DOMAIN evs : evs[k] = event

\* _handle_message for one frame, logged; the second codec is given the
\* frames of the first, in order
HandleLogged ==
    \E msg \in PairFrames :
        /\ Len(run_log) < MaxPairFrames
        /\ first_run # None =>
              /\ Len(run_log) < Len(Val(first_run))
              /\ msg = Val(first_run)[Len(run_log) + 1].frame
        /\ LET h == handle_message(msg)
           IN  /\ Handled(msg, h)
               /\ run_log' =
                      Append(run_log,
                             [frame |-> msg,
                              emits |-> [i \in DOMAIN h.c.emits |->
                                            [key |-> KeyOf(h.c.events, h.c.emits[i].event),
                                             signals |-> h.c.emits[i].signals,
                                             timestamp |-> h.c.emits[i].timestamp]],
                              metrics |-> h.c.metrics,
                              keys |-> DOMAIN h.c.events])
        /\ UNCHANGED <<configVars, signal, data_type, named, event_names, threadVars,
                       first_run, lifeVars, now, ts_calls>>

\* CanCodec(config) with emit_schemas_on_init set, from the same catalog,
\* after a codec in lazy mode has handled its frames
BuildEager ==
    /\ first_run = None /\ ~emit_schemas_on_init
    /\ first_run' = Some(run_log)
    /\ run_log' = << >>
    /\ emit_schemas_on_init' = TRUE
    /\ metrics' = Metrics0
    /\ events' = init_schemas(TRUE).events
    /\ source_events' = init_schemas(TRUE).source_events
    /\ last_frame' = None /\ last_emits' = << >> /\ last_raw' = None
    /\ hw_timestamp_offset' = None /\ first_hw_timestamp' = None
    /\ ts_arg' = None /\ ts_result' = None /\ ts_seen' = {}
    /\ UNCHANGED <<timestamp_mode, log_raw_frames, is_virtual, config, stops_listeners,
                   signal, data_type, named, event_names, threadVars, lifeVars, now,
                   ts_calls>>

(***************************************************************************)
(* Specifications.                                                         *)
(***************************************************************************)
\* no pure function is under study
NoInputs == signal = None /\ data_type = None /\ named = None /\ event_names = None

\* a codec with the default transport configuration
InitDefault == InitCodec /\ NoInputs /\ config = DefaultConfig /\ stops_listeners = TRUE

\* frame delivery to one codec, any configuration
InitFrames == InitDefault /\ timestamp_mode = AUTO /\ is_virtual = FALSE

NextFrames == HandleMessage

SpecFrames == InitFrames /\ [][NextFrames]_vars

\* the timestamp normaliser alone
InitTime ==
    /\ InitDefault
    /\ emit_schemas_on_init = FALSE /\ log_raw_frames = FALSE /\ is_virtual = FALSE

NextTime == GetTimestamp \/ Tick

SpecTime == InitTime /\ [][NextTime]_vars

\* the bus lifecycle and the periodic tasks, with a transport library of
\* either kind
InitLife ==
    /\ InitCodec /\ NoInputs /\ config = DefaultConfig
    /\ stops_listeners \in BOOLEAN
    /\ timestamp_mode = AUTO /\ emit_schemas_on_init = FALSE /\ log_raw_frames = FALSE
    /\ is_virtual = FALSE

\* the lifecycle without the health-monitor loop: no notifier is stopped
InitNoLoop == InitLife /\ stops_listeners

\* with the loop running, start_periodic and stop_periodic are offered one
\* message ID (two task names)
LoopMsgIds == {256}

StartPeriodicLife == StartPeriodicOf(LoopMsgIds, MaxLoopTasks)

StopPeriodicLife ==
    StopPeriodicOf({task_name_of(m, e) : m \in LoopMsgIds, e \in BOOLEAN})

NextLife ==
    \/ Start
    \/ Stop
    \/ RunAsync
    \/ ProbeTick
    \/ ReconnectWake
    \/ BusStateChange
    \/ ReaderDies
    \/ StartPeriodicLife
    \/ StopPeriodicLife
    \/ TaskStep

SpecLife == InitLife /\ [][NextLife]_vars

\* the bus lifecycle with frames delivered by the registrations and
\* get_metrics
NextLive ==
    \/ Start
    \/ Stop
    \/ RunAsync
    \/ ProbeTick
    \/ ReconnectWake
    \/ BusStateChange
    \/ ReaderDies
    \/ FrameCallback
    \/ GetMetrics

SpecLive == InitLife /\ [][NextLive]_vars

\* the health-monitor loop on a virtual or demo transport, whose state the
\* probe does not read
InitVirtual ==
    /\ InitCodec /\ NoInputs /\ config = DefaultConfig
    /\ stops_listeners \in BOOLEAN
    /\ timestamp_mode = AUTO /\ emit_schemas_on_init = FALSE /\ log_raw_frames = FALSE
    /\ is_virtual = TRUE

NextVirtual ==
    \/ Start
    \/ Stop
    \/ RunAsync
    \/ ProbeTick
    \/ ReconnectWake
    \/ BusStateChange
    \/ ReaderDies

SpecVirtual == InitVirtual /\ [][NextVirtual]_vars

\* the health-monitor loop of a started codec with the reader threads, a
\* delivery taken in two steps
NextThreads ==
    \/ Start
    \/ RunAsync
    \/ ProbeTick /\ Joined
    \/ ReconnectWake /\ Joined
    \/ BusStateChange
    \/ DeliverBegin
    \/ DeliverEnd

SpecThreads == InitLife /\ [][NextThreads]_vars

\* the senders (the periodic tasks and send_message) with stop() and the
\* health-monitor loop
NextSenders ==
    \/ Start
    \/ Stop
    \/ RunAsync
    \/ ProbeTick
    \/ ReconnectWake
    \/ BusStateChange
    \/ StartPeriodicLife
    \/ TaskStep
    \/ SendMessage

SpecSenders == InitLife /\ [][NextSenders]_vars

\* a codec in lazy mode and then a codec in eager mode, given the same
\* frames
InitPair ==
    /\ InitDefault /\ timestamp_mode = AUTO
    /\ ~emit_schemas_on_init /\ ~log_raw_frames /\ ~is_virtual

NextPair == HandleLogged \/ BuildEager

SpecPair == InitPair /\ [][NextPair]_vars

\* the health-monitor loop of a codec that is started and never stopped by
\* its owner; the event loop runs the loop when its sleep is over, and a
\* transport that can be opened from some point on lets a reopen that is
\* tried again and again succeed
ReconnectOpens == ReconnectWake /\ last'.result = "ok"

NextFair ==
    \/ Start
    \/ RunAsync
    \/ ProbeTick
    \/ ReconnectWake
    \/ BusStateChange
    \/ ReaderDies

SpecFair ==
    /\ InitLife /\ [][NextFair]_vars
    /\ WF_vars(RunAsync) /\ WF_vars(ProbeTick) /\ WF_vars(ReconnectWake)
    /\ SF_vars(ReconnectOpens)

\* start() and stop() under every configuration of Configs
InitConfig ==
    /\ InitCodec /\ NoInputs /\ config \in Configs /\ stops_listeners = TRUE
    /\ timestamp_mode = AUTO /\ emit_schemas_on_init = FALSE /\ log_raw_frames = FALSE
    /\ is_virtual = FALSE

NextConfig == Start \/ Stop

SpecConfig == InitConfig /\ [][NextConfig]_vars

\* the transmit requests: send_message and start_periodic on a codec that
\* is started and stopped
StartPeriodicSend == StartPeriodicOf(SendIds, MaxLoopTasks)

NextSend ==
    \/ Start
    \/ Stop
    \/ SendMessage
    \/ StartPeriodicSend

SpecSend == InitNoLoop /\ [][NextSend]_vars

\* the periodic tasks without the health-monitor loop
NextTasks ==
    \/ Start
    \/ Stop
    \/ StartPeriodic
    \/ StopPeriodic
    \/ TaskStep

SpecTasks == InitNoLoop /\ [][NextTasks]_vars

\* the signal type mapper alone, on every signal of Signals
InitTypes ==
    /\ InitCodec /\ config = DefaultConfig /\ stops_listeners = TRUE
    /\ timestamp_mode = AUTO /\ emit_schemas_on_init = FALSE /\ log_raw_frames = FALSE
    /\ is_virtual = FALSE
    /\ signal \in {Some(sig) : sig \in Signals}
    /\ data_type = None /\ named = None /\ event_names = None

NextTypes == MapSignal

SpecTypes == InitTypes /\ [][NextTypes]_vars

\* the naming of events alone, on every message of NamedMessages
InitNames ==
    /\ InitCodec /\ config = DefaultConfig /\ stops_listeners = TRUE
    /\ timestamp_mode = AUTO /\ emit_schemas_on_init = FALSE /\ log_raw_frames = FALSE
    /\ is_virtual = FALSE
    /\ named \in {Some([msg |-> m, mux_value |-> v]) : m \in NamedMessages, v \in {0, 1, 12}}
    /\ signal = None /\ data_type = None /\ event_names = None

NextNames == NameEvents

SpecNames == InitNames /\ [][NextNames]_vars

(***************************************************************************)
(* Properties of the decode pipeline (SpecFrames).                         *)
(***************************************************************************)
\* C1: handling a decodable frame of a multiplexed message whose selector
\* value is v emits only to the base event of the frame ID and to the event
\* of (frame ID, v), to each at most once, and to no event cached under
\* another selector value.
C1_MuxFrameEmitsOwnVariantOnly ==
    \A f \in last_frame :
        LET fid == f.arbitration_id
            KeysOfEvent(h) == {k \in DOMAIN events : events[k] = h}
        IN  (fid \in FrameIds /\ ~f.malformed /\ is_multiplexed(messages_by_id[fid])) =>
                /\ \A i \in DOMAIN last_emits :
                       /\ KeysOfEvent(last_emits[i].event) # {}
                       /\ KeysOfEvent(last_emits[i].event)
                              \subseteq {BaseKey(fid), MuxKey(fid, f.sel)}
                /\ \A i, j \in DOMAIN last_emits :
                       last_emits[i].event = last_emits[j].event => i = j

\* a frame with selector value 1 has been emitted to its base event and to its
\* variant's event while the event of selector value 0 is cached too
C1_Witness ==
    \E f \in last_frame :
        /\ f.arbitration_id \in FrameIds /\ ~f.malformed
        /\ is_multiplexed(messages_by_id[f.arbitration_id])
        /\ f.sel = 1
        /\ Len(last_emits) = 2
        /\ MuxKey(f.arbitration_id, 0) \in DOMAIN events
        /\ MuxKey(f.arbitration_id, 1) \in DOMAIN events

\* C9 as stated: in lazy mode the cache is empty after construction, the keys
\* of a decodable frame (the base key of its frame ID and, for a multiplexed
\* message, the key of a declared selector value) are present once it has
\* been handled, no other key appears, and cached keys keep their events.
C9_AsStated ==
    /\ ~emit_schemas_on_init => events = NoEvents
    /\ [][(~emit_schemas_on_init /\ last_frame' # None) =>
            LET f == Val(last_frame')
                fid == f.arbitration_id
                msg == messages_by_id[fid]
                declared == UNION {s.multiplexer_ids : s \in SeqRange(msg.signals)}
                keys == IF fid \notin FrameIds \/ f.malformed THEN {}
                        ELSE {BaseKey(fid)} \cup
                             {MuxKey(fid, v) : v \in {f.sel} \cap declared}
            IN  /\ DOMAIN events' = DOMAIN events \cup keys
                /\ \A k \in DOMAIN events : events'[k] = events[k]
                /\ Len(source_events') =
                       Len(source_events) + Cardinality(keys \ DOMAIN events)
         ]_vars

\* C9, amended: in lazy mode the cache is empty after construction; the base
\* key of a frame ID is absent until a frame of that ID decodes and the
\* message has a signal that is not multiplexed, the key (frame ID, v) until
\* such a frame has selector value v and a signal belongs to v; the key is
\* present from then on; no other key appears (a message without signals gets
\* no entry), and a frame whose keys are cached leaves the cache as it is.
C9_LazyCache ==
    /\ ~emit_schemas_on_init => events = NoEvents
    /\ [][(~emit_schemas_on_init /\ last_frame' # None) =>
            LET f == Val(last_frame')
                fid == f.arbitration_id
                msg == messages_by_id[fid]
                sigs == SeqRange(msg.signals)
                keys == IF fid \notin FrameIds \/ f.malformed THEN {}
                        ELSE {BaseKey(fid) : s \in {t \in sigs : t.multiplexer_ids = {}}}
                             \cup
                             {MuxKey(fid, f.sel) :
                                 s \in {t \in sigs : f.sel \in t.multiplexer_ids}}
            IN  /\ DOMAIN events' = DOMAIN events \cup keys
                /\ \A k \in DOMAIN events : events'[k] = events[k]
                /\ Len(source_events') =
                       Len(source_events) + Cardinality(keys \ DOMAIN events)
         ]_vars

\* lazy mode: a frame of a message without signals has been decoded after
\* other keys were cached, and its base key is not in the cache
C9_Witness ==
    /\ ~emit_schemas_on_init
    /\ events # NoEvents
    /\ \E f \in last_frame :
          /\ f.arbitration_id \in FrameIds /\ ~f.malformed
          /\ messages_by_id[f.arbitration_id].signals = << >>
          /\ BaseKey(f.arbitration_id) \notin DOMAIN events

\* C10 as stated: in eager mode the cache holds, after construction, the base
\* key of every catalog message and (frame ID, v) for every declared selector
\* value v, and no frame changes it.
C10_AsStated ==
    /\ emit_schemas_on_init =>
          DOMAIN events =
              {BaseKey(m.frame_id) : m \in SeqRange(Messages)} \cup
              UNION {{MuxKey(m.frame_id, v) :
                         v \in UNION {s.multiplexer_ids : s \in SeqRange(m.signals)}} :
                     m \in SeqRange(Messages)}
    /\ [][emit_schemas_on_init =>
              events' = events /\ source_events' = source_events]_vars

\* C10, amended: in eager mode the cache holds, after construction, the base
\* key of every catalog message that has a signal that is not multiplexed and
\* (frame ID, v) for every declared selector value v, each with an event of
\* its own, and no frame changes it.
C10_EagerCache ==
    /\ emit_schemas_on_init =>
          /\ DOMAIN events =
                 {BaseKey(m.frame_id) :
                     m \in {n \in SeqRange(Messages) :
                               \E s \in SeqRange(n.signals) : s.multiplexer_ids = {}}}
                 \cup
                 UNION {{MuxKey(m.frame_id, v) :
                            v \in UNION {s.multiplexer_ids : s \in SeqRange(m.signals)}} :
                        m \in SeqRange(Messages)}
          /\ \A j, k \in DOMAIN events : events[j] = events[k] => j = k
          /\ Len(source_events) = Cardinality(DOMAIN events)
    /\ [][emit_schemas_on_init =>
              events' = events /\ source_events' = source_events]_vars

\* eager mode: a frame of a message without signals has been decoded, and one
\* of a multiplexed message before it
C10_Witness ==
    /\ emit_schemas_on_init
    /\ metrics.messages_decoded >= 2
    /\ \E f \in last_frame :
          /\ f.arbitration_id \in FrameIds /\ ~f.malformed
          /\ messages_by_id[f.arbitration_id].signals = << >>
          /\ BaseKey(f.arbitration_id) \notin DOMAIN events

(***************************************************************************)
(* Properties of the timestamp normaliser (SpecTime).                      *)
(***************************************************************************)
\* C2: in Auto mode the offset and the first sample are unset until the first
\* call with a non-null sample, which sets the offset and stores its sample
\* as the first one; no later call changes either.
C2_AutoOffsetSetOnce ==
    /\ hw_timestamp_offset = None /\ first_hw_timestamp = None
    /\ [][timestamp_mode = AUTO =>
            /\ hw_timestamp_offset # None =>
                  /\ hw_timestamp_offset' = hw_timestamp_offset
                  /\ first_hw_timestamp' = first_hw_timestamp
            /\ (hw_timestamp_offset = None /\ ts_calls' # ts_calls) =>
                  IF ts_arg' = None
                  THEN hw_timestamp_offset' = None /\ first_hw_timestamp' = None
                  ELSE hw_timestamp_offset' # None /\ first_hw_timestamp' = ts_arg'
         ]_vars

\* Auto mode: the offset was detected as 0, and a later call had a sample from
\* which a different offset would have been detected
C2_Witness ==
    /\ timestamp_mode = AUTO
    /\ ts_calls >= 2
    /\ hw_timestamp_offset = Some(0)
    /\ ts_arg # None /\ ts_arg # first_hw_timestamp
    /\ \E x \in ts_arg : Abs(now - x) >= Seconds(AutoTolerance)

(***************************************************************************)
(* Properties of the bus lifecycle (SpecLife) and of the periodic tasks    *)
(* (SpecTasks).  A step with last'.op = "stop" is a stop() call, and so on *)
(* for the other operations.                                               *)
(***************************************************************************)
\* C3: after stop() running is false, no handle is held, the handle that was
\* held has been shut down once more, every task the map held is cancelled
\* and the map is empty; a stop() that follows a stop() changes nothing and
\* shuts no transport down again.
C3_StopIdempotent ==
    [][last'.op = "stop" =>
         /\ ~running' /\ bus' = None
         /\ periodic_tasks' = NoTasks
         /\ Len(tasks') = Len(tasks)
         /\ \A i \in DOMAIN tasks :
               IF i \in Held(periodic_tasks)
               THEN tasks'[i].cancelled \/ tasks[i].pc = "done"
               ELSE tasks'[i] = tasks[i]
         /\ \A h \in DOMAIN bus_shutdowns :
               bus_shutdowns'[h] = bus_shutdowns[h] + (IF bus = Some(h) THEN 1 ELSE 0)
         /\ last.op = "stop" => UNCHANGED <<busVars, taskVars, loopVars>>
      ]_vars

\* stop() has cancelled two periodic tasks and shut the one transport down
C3_Witness ==
    /\ last.op = "stop"
    /\ ~running /\ bus = None /\ periodic_tasks = NoTasks
    /\ \E i, j \in DOMAIN tasks :
          /\ tasks[i].name # tasks[j].name
          /\ tasks[i].cancelled /\ tasks[j].cancelled
    /\ \E h \in DOMAIN bus_shutdowns : bus_shutdowns[h] = 1

\* C4 as stated: once stop() has been called, and until the caller has
\* started the codec again, running is false and no transport handle is held.
C4_NoRestartAfterStop ==
    stop_requested => (~running /\ bus = None)

\* C5 as stated: while the latest reopen of a reconnection has failed and
\* the caller has not stopped the codec, the health-monitor loop has not
\* ended: it sleeps until its next probe or is in the next reconnection.
C5_LoopKeepsRunning ==
    (reopen_failed /\ ~stop_requested) => loop_pc \in {"sleep5", "reconnect_wait"}

\* C6 as stated: start() opens the transport at most max_retries times and
\* not after the first success; on success running is true and a handle is
\* held; when every attempt fails with a transport error the error reaches
\* the caller and the codec is Stopped: running false, no handle held.
C6_AsStated ==
    last.op \in {"start", "reconnect"} =>
        /\ Len(last.calls) \in 1..max_retries
        /\ \A i \in 1..(Len(last.calls) - 1) : last.calls[i] = "CanError"
        /\ last.result = "ok" => running /\ bus # None
        /\ (\A i \in DOMAIN last.calls : last.calls[i] = "CanError") =>
              /\ Len(last.calls) = max_retries
              /\ last.result = "CanError"
              /\ ~running /\ bus = None

\* C6, amended: start() opens the transport at most max_retries times and
\* not after the first success; on success running is true and the handle
\* just opened is held; when every attempt fails with a transport error the
\* error reaches the caller and running and the handle are as they were
\* before the call (a codec that was Stopped is Stopped; a reopen that fails
\* on a codec whose running flag is set leaves the flag set).
C6_StartRetries ==
    [][last'.op \in {"start", "reconnect"} =>
         /\ Len(last'.calls) \in 1..max_retries
         /\ \A i \in 1..(Len(last'.calls) - 1) : last'.calls[i] = "CanError"
         /\ last'.result = "ok" <=> last'.calls[Len(last'.calls)] = "ok"
         /\ last'.result = "ok" =>
               /\ running'
               /\ bus' = Some(Len(bus_shutdowns'))
               /\ Len(bus_shutdowns') = Len(bus_shutdowns) + 1
               /\ bus_shutdowns'[Len(bus_shutdowns')] = 0
         /\ (\A i \in DOMAIN last'.calls : last'.calls[i] = "CanError") =>
               /\ Len(last'.calls) = max_retries
               /\ last'.result = "CanError"
               /\ running' = running /\ bus' = bus
               /\ bus_shutdowns' = bus_shutdowns
         /\ (last'.op = "start" /\ last'.result = "CanError") =>
               ~running' /\ bus' = None
      ]_vars

\* the reopen of a reconnection has failed max_retries times and running is
\* still true
C6_Witness ==
    /\ last.op = "reconnect"
    /\ last.result = "CanError"
    /\ Len(last.calls) = max_retries
    /\ running

\* C7: no two uncancelled tasks have the same name, and an uncancelled task
\* is the one the map holds under its name; a start_periodic that succeeds
\* creates one task, puts it in the map under the derived name and has
\* cancelled the task the map held under that name before.
C7_OneTaskPerName ==
    /\ [](\A i \in DOMAIN tasks :
             ~tasks[i].cancelled =>
                 /\ tasks[i].name \in DOMAIN periodic_tasks
                 /\ periodic_tasks[tasks[i].name] = i
                 /\ \A j \in DOMAIN tasks :
                       (tasks[j].name = tasks[i].name /\ ~tasks[j].cancelled) => j = i)
    /\ [][(last'.op = "start_periodic" /\ last'.result = "started") =>
             LET name == last'.arg
             IN  /\ Len(tasks') = Len(tasks) + 1
                 /\ tasks'[Len(tasks')].name = name
                 /\ ~tasks'[Len(tasks')].cancelled
                 /\ DOMAIN periodic_tasks' = DOMAIN periodic_tasks \cup {name}
                 /\ periodic_tasks'[name] = Len(tasks')
                 /\ \A n \in DOMAIN periodic_tasks \ {name} :
                       periodic_tasks'[n] = periodic_tasks[n]
                 /\ name \in DOMAIN periodic_tasks =>
                       \/ tasks'[periodic_tasks[name]].cancelled
                       \/ tasks[periodic_tasks[name]].pc = "done"
         ]_vars

\* start_periodic has succeeded twice for one name: the map holds the second
\* task, the first is cancelled
C7_Witness ==
    /\ last.op = "start_periodic" /\ last.result = "started"
    /\ \E i, j \in DOMAIN tasks :
          /\ i < j
          /\ tasks[i].name = last.arg /\ tasks[j].name = last.arg
          /\ tasks[i].cancelled /\ ~tasks[j].cancelled
          /\ periodic_tasks[last.arg] = j

\* C8: stop_periodic of a name the map holds cancels that task and removes
\* that entry, touching no other task or entry, and reports success;
\* stop_periodic of any other name reports an error and changes nothing.
C8_StopPeriodic ==
    [][last'.op = "stop_periodic" =>
         LET name == last'.arg
         IN  IF name \in DOMAIN periodic_tasks
             THEN /\ last'.result = "stopped"
                  /\ DOMAIN periodic_tasks' = DOMAIN periodic_tasks \ {name}
                  /\ \A n \in DOMAIN periodic_tasks' :
                        periodic_tasks'[n] = periodic_tasks[n]
                  /\ Len(tasks') = Len(tasks)
                  /\ \A i \in DOMAIN tasks :
                        IF i = periodic_tasks[name]
                        THEN tasks'[i].cancelled \/ tasks[i].pc = "done"
                        ELSE tasks'[i] = tasks[i]
                  /\ UNCHANGED <<busVars, loopVars>>
             ELSE /\ last'.result = "error"
                  /\ UNCHANGED <<busVars, loopVars, taskVars>>
      ]_vars

\* stop_periodic has cancelled and removed one of two tasks; the other is
\* still in the map and uncancelled
C8_Witness ==
    /\ last.op = "stop_periodic" /\ last.result = "stopped"
    /\ last.arg \notin DOMAIN periodic_tasks
    /\ \E i \in DOMAIN tasks : tasks[i].name = last.arg /\ tasks[i].cancelled
    /\ \E n \in DOMAIN periodic_tasks : ~tasks[periodic_tasks[n]].cancelled

C12_DecodedCountsFrames ==
    [][last_frame' # None =>
         LET f == Val(last_frame')
         IN  metrics'.messages_decoded =
                 metrics.messages_decoded +
                 (IF f.arbitration_id \in FrameIds /\ ~f.malformed THEN 1 ELSE 0)
      ]_vars

\* three frames, one of them undecodable, the last with two emissions:
\* messages_decoded is 2
C12_Witness ==
    /\ metrics.messages_received = 3
    /\ metrics.messages_decoded = 2
    /\ Len(last_emits) = 2

\* C13 as stated: a frame whose declared length exceeds the maximum (8 in
\* classic mode, 64 in FD mode) is counted as received and nothing else:
\* no raw emission, no decoded emission, the other counters and the cache
\* unchanged.
C13_OversizedFrameRejected ==
    [][last_frame' # None =>
         LET f == Val(last_frame')
         IN  f.dlc > (IF fd_mode THEN 64 ELSE 8) =>
                 /\ metrics'.messages_received = metrics.messages_received + 1
                 /\ last_raw' = None
                 /\ last_emits' = << >>
                 /\ metrics'.messages_decoded = metrics.messages_decoded
                 /\ metrics'.decode_errors = metrics.decode_errors
                 /\ metrics'.unknown_messages = metrics.unknown_messages
                 /\ events' = events
      ]_vars

\* C14: a frame whose ID is not in the catalog adds 1 to unknown_messages,
\* leaves messages_decoded and decode_errors as they were, emits nothing
\* and creates no schema; a frame of a catalog ID whose payload does not
\* decode adds 1 to decode_errors, leaves messages_decoded and
\* unknown_messages as they were and emits nothing; a decodable frame that
\* follows either is decoded and emitted.
C14_UnknownAndMalformed ==
    [][last_frame' # None =>
         LET f == Val(last_frame')
             fid == f.arbitration_id
             Bad(g) == g.arbitration_id \notin FrameIds \/ g.malformed
         IN  /\ fid \notin FrameIds =>
                   /\ metrics'.unknown_messages = metrics.unknown_messages + 1
                   /\ metrics'.messages_decoded = metrics.messages_decoded
                   /\ metrics'.decode_errors = metrics.decode_errors
                   /\ last_emits' = << >>
                   /\ events' = events /\ source_events' = source_events
             /\ (fid \in FrameIds /\ f.malformed) =>
                   /\ metrics'.decode_errors = metrics.decode_errors + 1
                   /\ metrics'.messages_decoded = metrics.messages_decoded
                   /\ metrics'.unknown_messages = metrics.unknown_messages
                   /\ last_emits' = << >>
             /\ (/\ \E g \in last_frame : Bad(g)
                 /\ ~Bad(f) /\ f.raises = {}
                 /\ messages_by_id[fid].signals # << >>) =>
                   /\ metrics'.messages_decoded = metrics.messages_decoded + 1
                   /\ metrics'.unknown_messages = metrics.unknown_messages
                   /\ metrics'.decode_errors = metrics.decode_errors
                   /\ last_emits' # << >>
      ]_vars

\* after a frame of an unknown ID and an undecodable frame, a third frame has
\* been decoded and emitted
C14_Witness ==
    /\ metrics.messages_received = 3
    /\ metrics.unknown_messages = 1
    /\ metrics.decode_errors = 1
    /\ metrics.messages_decoded = 1
    /\ \E f \in last_frame : f.arbitration_id \in FrameIds /\ ~f.malformed /\ f.raises = {}
    /\ last_emits # << >>

\* C15: when the sink raises for the base emission of a decoded frame,
\* decode_errors grows by 1 for that emission (and by 1 more if the
\* multiplexed emission raises too), _handle_message returns normally
\* (the frame is counted as received and as decoded), nothing is emitted to
\* the base event, and the multiplexed emission of the frame is made.
C15_BaseEmissionError ==
    [][last_frame' # None =>
         LET f == Val(last_frame')
             fid == f.arbitration_id
             msg == messages_by_id[fid]
             declared == UNION {s.multiplexer_ids : s \in SeqRange(msg.signals)}
             mux == is_multiplexed(msg) /\ f.sel \in declared
         IN  (fid \in FrameIds /\ ~f.malformed /\ "base" \in f.raises) =>
                 /\ metrics'.messages_received = metrics.messages_received + 1
                 /\ metrics'.messages_decoded = metrics.messages_decoded + 1
                 /\ metrics'.unknown_messages = metrics.unknown_messages
                 /\ metrics'.decode_errors =
                        metrics.decode_errors + 1 +
                        (IF mux /\ "mux" \in f.raises THEN 1 ELSE 0)
                 /\ \A i \in DOMAIN last_emits' :
                        last_emits'[i].event # events'[BaseKey(fid)]
                 /\ (mux /\ "mux" \notin f.raises) =>
                        /\ Len(last_emits') = 1
                        /\ last_emits'[1].event = events'[MuxKey(fid, f.sel)]
      ]_vars

\* the base emission of a multiplexed frame has raised, and the multiplexed
\* emission of the same frame has been made
C15_Witness ==
    /\ metrics.decode_errors = 1
    /\ \E f \in last_frame :
          /\ f.arbitration_id \in FrameIds /\ ~f.malformed
          /\ f.raises = {"base"}
          /\ is_multiplexed(messages_by_id[f.arbitration_id])
          /\ Len(last_emits) = 1
          /\ last_emits[1].event = events[MuxKey(f.arbitration_id, f.sel)]

\* C20: of the catalog messages that share a name, messages_by_name holds
\* the one declared first; messages_by_id holds every message under its
\* own frame ID, and a frame of either ID is emitted to the event of its own
\* ID with the signals of its own message.
C20_DuplicateNames ==
    /\ \A i \in DOMAIN Messages :
          /\ messages_by_id[Messages[i].frame_id] = Messages[i]
          /\ \E j \in 1..i :
                /\ messages_by_name[Messages[i].name] = Messages[j]
                /\ \A k \in 1..(j - 1) : Messages[k].name # Messages[i].name
    /\ \A f \in last_frame :
          \A i \in DOMAIN Messages :
              (/\ Messages[i].frame_id = f.arbitration_id
               /\ ~f.malformed /\ f.raises = {}
               /\ \E j \in DOMAIN Messages \ {i} : Messages[j].name = Messages[i].name) =>
                  /\ Len(last_emits) = 1
                  /\ last_emits[1].event = events[BaseKey(Messages[i].frame_id)]
                  /\ DOMAIN last_emits[1].signals =
                         {s.name : s \in SeqRange(Messages[i].signals)}
                  /\ source_events[last_emits[1].event].fields =
                         [k \in DOMAIN Messages[i].signals |-> Messages[i].signals[k].name]

\* a frame of the second message of a shared name has been emitted, after one
\* of the first message
C20_Witness ==
    \E f \in last_frame :
        \E i, j \in DOMAIN Messages :
            /\ i < j
            /\ Messages[i].name = Messages[j].name
            /\ Messages[j].frame_id = f.arbitration_id
            /\ Len(last_emits) = 1
            /\ ~emit_schemas_on_init
            /\ BaseKey(Messages[i].frame_id) \in DOMAIN events

(***************************************************************************)
(* Properties of the conversions (SpecTime).  A result <<sec, ns>> stands  *)
(* for sec * 10^9 + ns nanoseconds, a sample x for x / 3 seconds.         *)
(***************************************************************************)
\* C16: in Auto mode, for any two samples s1 and s2 the codec has converted,
\* the difference of the results is (s2 - s1) in nanoseconds to within
\* 1 microsecond.
C16_RelativeTimingPreserved ==
    timestamp_mode = AUTO =>
        \A p, q \in ts_seen :
            LET Floor(t) == IF t[2] < 0 THEN <<t[1] - 1, t[2] + 1000000000>> ELSE t
                e == q[1] - p[1]
                k == (Floor(q[2])[1] - Floor(p[2])[1]) - (e \div 3)
                r == (Floor(q[2])[2] - Floor(p[2])[2]) - (((e % 3) * 1000000000) \div 3)
            IN  \/ k = 0 /\ r >= 0 - 1000 /\ r <= 1000
                \/ k = 1 /\ r >= 0 - 1000001000 /\ r <= 0 - 999999000
                \/ k = 0 - 1 /\ r >= 999999000 /\ r <= 1000001000

\* Auto mode: three different samples have been converted with an offset
\* that is not 0, one of them a third of a second after a whole second
C16_Witness ==
    /\ timestamp_mode = AUTO
    /\ Cardinality(ts_seen) = 3
    /\ hw_timestamp_offset # None /\ hw_timestamp_offset # Some(0)
    /\ \E p \in ts_seen : p[1] % 3 = 1

C18_AsStated ==
    timestamp_mode = ABSOLUTE =>
        /\ hw_timestamp_offset = None /\ first_hw_timestamp = None
        /\ \A hw \in ts_arg :
              LET a == Abs(hw)
                  sign == IF hw < 0 THEN 0 - 1 ELSE 1
                  rounded == IF a % 3 = 0 THEN 0
                             ELSE IF a % 3 = 1 THEN 333333333
                             ELSE 666666667
              IN  ts_result = Some(<<sign * (a \div 3), sign * rounded>>)

\* C18, amended: in Absolute mode the result for a sample x is int(x * 1e9),
\* that is x * 1e9 truncated toward zero, for every non-null sample, and
\* the offset and the first sample stay unset.
C18_AbsoluteTruncates ==
    timestamp_mode = ABSOLUTE =>
        /\ hw_timestamp_offset = None /\ first_hw_timestamp = None
        /\ \A hw \in ts_arg :
              LET a == Abs(hw)
                  sign == IF hw < 0 THEN 0 - 1 ELSE 1
                  truncated == IF a % 3 = 0 THEN 0
                               ELSE IF a % 3 = 1 THEN 333333333
                               ELSE 666666666
              IN  ts_result = Some(<<sign * (a \div 3), sign * truncated>>)

\* Absolute mode: a sample two thirds of a second after a whole second has
\* been converted, after a negative one
C18_Witness ==
    /\ timestamp_mode = ABSOLUTE
    /\ ts_result # None
    /\ \E hw \in ts_arg : hw > 0 /\ hw % 3 = 2
    /\ \E p \in ts_seen : p[1] < 0

\* C19: a call in Ignore mode, and a call with a null sample in any mode,
\* returns None and leaves the offset and the first sample as they were.
C19_NoneLeavesStateAlone ==
    [][(ts_calls' # ts_calls /\ (timestamp_mode = IGNORE \/ ts_arg' = None)) =>
         /\ ts_result' = None
         /\ hw_timestamp_offset' = hw_timestamp_offset
         /\ first_hw_timestamp' = first_hw_timestamp
         /\ ts_seen' = ts_seen
      ]_vars

\* Auto mode: two calls with a null sample have been made and the offset
\* is still to be decided
C19_Witness ==
    /\ timestamp_mode = AUTO
    /\ ts_calls = 2
    /\ ts_arg = None
    /\ ts_seen = {}
    /\ hw_timestamp_offset = None /\ first_hw_timestamp = None

(***************************************************************************)
(* Properties of the signal type mapper (SpecTypes).                       *)
(* Numbers of up to 72 bits are triples <<h, m, l>> of value               *)
(* h * 2^48 + m * 2^24 + l with 0 <= m, l < 2^24.                          *)
(***************************************************************************)
Limb == 2 ^ 24

Norm(h, m, l) ==
    LET m1 == m + (l \div Limb)
    IN  << h + (m1 \div Limb), m1 % Limb, l % Limb >>

\* 2^k for 0 <= k <= 64
Pow2(k) ==
    IF k < 24 THEN << 0, 0, 2 ^ k >>
    ELSE IF k < 48 THEN << 0, 2 ^ (k - 24), 0 >>
    ELSE << 2 ^ (k - 48), 0, 0 >>

\* a * n and a + n for a small integer n
Times(a, n) == Norm(a[1] * n, a[2] * n, a[3] * n)
Plus(a, n) == Norm(a[1], a[2], a[3] + n)

Leq(a, b) ==
    \/ a[1] < b[1]
    \/ a[1] = b[1] /\ a[2] < b[2]
    \/ a[1] = b[1] /\ a[2] = b[2] /\ a[3] <= b[3]

\* the least and the greatest value of a two's-complement or unsigned field
FieldMin(bits, signed) == IF signed THEN Times(Pow2(bits - 1), 0 - 1) ELSE << 0, 0, 0 >>
FieldMax(bits, signed) == Plus(Pow2(IF signed THEN bits - 1 ELSE bits), 0 - 1)

\* raw * scale + offset for a signal of whole scale and offset
Decoded(sig, raw) == Plus(Times(raw, sig.scale.halves \div 2), sig.offset.halves \div 2)

TypeBits(t) ==
    IF t \in {"Int8", "UInt8"} THEN 8
    ELSE IF t \in {"Int16", "UInt16"} THEN 16
    ELSE IF t \in {"Int32", "UInt32"} THEN 32
    ELSE 64

IntegerTypes == {"Int8", "UInt8", "Int16", "UInt16", "Int32", "UInt32", "Int64", "UInt64"}

\* the signal is integer-valued: not a float, scale and offset are ints
IntegerValued(sig) == ~sig.is_float /\ ~sig.scale.is_float /\ ~sig.offset.is_float

\* C21: for an integer-valued signal, the decoded values raw * scale + offset
\* of the least and of the greatest raw value (and so, the conversion being
\* linear, of every raw value) lie within the range of the integer type the
\* mapper returned.
C21_TypeHoldsDecodedRange ==
    (signal # None /\ data_type # None /\ IntegerValued(Val(signal))) =>
        LET sig == Val(signal)
            t == Val(data_type)
            signed == t \in {"Int8", "Int16", "Int32", "Int64"}
            lo == FieldMin(TypeBits(t), signed)
            hi == FieldMax(TypeBits(t), signed)
            ends == {Decoded(sig, FieldMin(sig.length, sig.is_signed)),
                     Decoded(sig, FieldMax(sig.length, sig.is_signed))}
        IN  /\ t \in IntegerTypes
            /\ \A d \in ends : Leq(lo, d) /\ Leq(d, hi)

\* what C22 says of a signal: a float type for a declared float or a scale
\* that is not a whole number; the type of the bit length for scale 1 and
\* offset 0; the 32- or 64-bit type otherwise
C22_Stated(sig) ==
    LET int(bits) == IF sig.is_signed THEN "Int" \o bits ELSE "UInt" \o bits
    IN  IF sig.is_float \/ sig.scale.halves % 2 # 0
        THEN IF sig.length > 32 THEN "Float64" ELSE "Float32"
        ELSE IF sig.scale.halves = 2 /\ sig.offset.halves = 0
        THEN IF sig.length <= 8 THEN int("8")
             ELSE IF sig.length <= 16 THEN int("16")
             ELSE IF sig.length <= 32 THEN int("32")
             ELSE int("64")
        ELSE IF sig.length > 32 THEN int("64") ELSE int("32")

\* C22 as stated: the mapper returns, for every signal, the type the rule
\* above gives, where a float is a declared float or a signal whose scale is
\* not a whole number.
C22_AsStated ==
    data_type # None => Val(data_type) = C22_Stated(Val(signal))

\* C22, amended: the mapper returns exactly one type for every signal: a
\* float type (64-bit above 32 bits) for a declared float or a scale held as
\* a float, whole or not; otherwise, for scale 1 and offset 0, the 8-, 16-,
\* 32- or 64-bit integer type of the signal's signedness by bit length; in
\* every other case the 32-bit integer type, or the 64-bit one above 32 bits.
C22_TypeTable ==
    data_type # None =>
        LET sig == Val(signal)
            t == Val(data_type)
            wide == sig.length > 32
            float == sig.is_float \/ sig.scale.is_float
            identity == sig.scale.halves = 2 /\ sig.offset.halves = 0
            bits == IF identity /\ sig.length <= 8 THEN 8
                    ELSE IF identity /\ sig.length <= 16 THEN 16
                    ELSE IF wide THEN 64 ELSE 32
        IN  /\ t \in IntegerTypes \cup {"Float32", "Float64"}
            /\ float => t = (IF wide THEN "Float64" ELSE "Float32")
            /\ ~float =>
                  /\ t \in IntegerTypes
                  /\ TypeBits(t) = bits
                  /\ (t \in {"Int8", "Int16", "Int32", "Int64"}) = sig.is_signed

\* reached: a type was returned for a signal that is not a declared float
\* and whose scale is the float 2.0
C22_Witness ==
    /\ data_type = Some("Float32")
    /\ signal # None
    /\ ~Val(signal).is_float
    /\ Val(signal).scale = PyFloat(4)
    /\ Val(signal).offset = PyInt(0)

(***************************************************************************)
(* Properties of the event names (SpecNames).                              *)
(***************************************************************************)
\* C23: the base event name is the frame ID in 4 lowercase hex digits for a
\* standard ID and in 8 for an extended ID, "_" and the message name; the
\* name of a variant is the base name, "/" and the label the selector has
\* for the value, or else the value in decimal.
C23_EventNames ==
    event_names # None =>
        LET msg == Val(named).msg
            v == Val(named).mux_value
            sel == Val(mux_signal_of(msg))
            id == IF msg.is_extended_frame
                  THEN HexPad(msg.frame_id, 8) ELSE HexPad(msg.frame_id, 4)
            base == id \o "_" \o msg.name
            label == IF v \in DOMAIN sel.choices THEN sel.choices[v] ELSE DecStr(v)
        IN  /\ Val(event_names).base = base
            /\ Val(event_names).variant # None =>
                  Val(event_names).variant = Some(base \o "/" \o label)

(***************************************************************************)
(* Properties of the running codec (SpecLive): frames delivered while the  *)
(* bus is started, stopped and reconnected.                                *)
(***************************************************************************)
\* C24: no step (a frame delivery, start, stop, a step of a reconnection, a
\* get_metrics call) takes any of the four counters below its previous
\* value, and a get_metrics call changes no counter and returns the four
\* counters as they are.
C24_CountersNeverDecrease ==
    [][
        /\ \A k \in DOMAIN Metrics0 : metrics'[k] >= metrics[k]
        /\ last'.op = "get_metrics" =>
              /\ metrics' = metrics
              /\ \A k \in DOMAIN Metrics0 : last'.read[k] = metrics[k]
    ]_vars

\* reached: get_metrics reads two frames, one decoded and one unknown, on a
\* codec whose first handle was shut down and whose second handle is open
C24_Witness ==
    /\ last.op = "get_metrics"
    /\ last.read.messages_received = 2
    /\ last.read.messages_decoded = 1
    /\ last.read.unknown_messages = 1
    /\ Len(bus_shutdowns) = 2
    /\ bus_shutdowns[1] = 1
    /\ bus = Some(2)

(***************************************************************************)
(* Properties of the transport configuration (SpecConfig).                 *)
(***************************************************************************)
\* C25: whenever start() calls the open, the configuration it passes has the
\* keys of the structured fields (interface, channel, and, as configured,
\* receive_own_messages, bitrate, fd, data_bitrate) and the keys of the
\* config_json object; every key of the object has the object's value, every
\* other structured key its structured value, and without a config_json, or
\* with an empty one, it is the structured fields alone.  A start() that
\* makes no open call passes nothing.
C25_BlobOverridesFields ==
    [][
        last'.op = "start" =>
            LET fields == structured_config(config)
                empty == config.config_json \in {None, Some(<< >>), Some(<<"{", "}">>)}
                blob == IF config.config_json \in {None, Some(<< >>)} THEN NoFields
                        ELSE json_loads(Val(config.config_json)).value
            IN  IF last'.calls = << >>
                THEN bus_config' = bus_config
                ELSE /\ bus_config' # None
                     /\ {"interface", "channel"} \subseteq DOMAIN fields
                     /\ DOMAIN fields \subseteq
                            {"interface", "channel", "receive_own_messages", "bitrate",
                             "fd", "data_bitrate"}
                     /\ DOMAIN Val(bus_config') = DOMAIN fields \cup DOMAIN blob
                     /\ \A k \in DOMAIN blob : Val(bus_config')[k] = blob[k]
                     /\ \A k \in DOMAIN fields \ DOMAIN blob :
                            Val(bus_config')[k] = fields[k]
                     /\ empty => Val(bus_config') = fields
    ]_vars

\* reached: a start() opened the bus with the blob's bitrate in place of the
\* structured one, the blob's app_name added and the structured channel kept
C25_Witness ==
    /\ last.op = "start" /\ last.result = "ok"
    /\ config.config_json = Some(<<"{", "bitrate", ":", "250000", "}">>)
    /\ "bitrate" \in DOMAIN config.fields
    /\ config_fd_mode(config)
    /\ bus_config # None
    /\ Val(bus_config)["bitrate"] = "250000"
    /\ Val(bus_config)["channel"] = "can0"
    /\ Val(bus_config)["fd"] = "True"

(***************************************************************************)
(* Properties of the transmit requests (SpecSend).                         *)
(***************************************************************************)
\* C26: a send_message call made while no bus is held, or with an ID above
\* the maximum of its kind (0x7FF standard, 0x1FFFFFFF extended), returns an
\* error and sends nothing; a start_periodic call made under the same
\* conditions, or while the codec is not running, returns an error and
\* leaves every task and the task map as they were.
C26_RejectedRequests ==
    [][
        LET over == {p \in SendIds \X BOOLEAN :
                        p[1] > (IF p[2] THEN MaxExtendedId ELSE MaxStandardId)}
            OverIds == {sent_id_of(p[1], p[2]) : p \in over}
            OverNames == {task_name_of(p[1], p[2]) : p \in over}
        IN  /\ (last'.op = "send_message" /\ (bus = None \/ last'.arg \in OverIds)) =>
                  /\ last'.result = "error"
                  /\ last'.sent = None
            /\ (/\ last'.op = "start_periodic"
                /\ (bus = None \/ ~running \/ last'.arg \in OverNames)) =>
                  /\ last'.result = "error"
                  /\ tasks' = tasks
                  /\ periodic_tasks' = periodic_tasks
    ]_vars

\* reached: on a running codec that holds a bus and a periodic task,
\* send_message was refused the standard ID 0x800
C26_Witness ==
    /\ last.op = "send_message"
    /\ last.arg = "0x0800"
    /\ last.result = "error"
    /\ bus # None /\ running
    /\ DOMAIN periodic_tasks # {}

\* C27: at no time does the codec have two registrations that have not been
\* stopped, and while the loop's registration is stopped and not yet
\* replaced (from the probe that starts a reconnection to the reopen that
\* succeeds, failed reopens and the sleeps between them included) no frame
\* callback runs.
C27_OneRegistration ==
    /\ [](Cardinality({i \in DOMAIN notifiers : ~notifiers[i].stopped}) <= 1)
    /\ [][
            (/\ loop_pc \in {"sleep5", "reconnect_wait"}
             /\ notifier # None
             /\ notifiers[Val(notifier)].stopped) => last'.op # "callback"
       ]_vars

\* reached: a frame was delivered through the registration a reconnection
\* created, the first registration being stopped, after a frame delivered
\* through the first
C27_Witness ==
    /\ last.op = "callback"
    /\ Len(notifiers) = 2
    /\ notifiers[1].stopped
    /\ Active(notifiers[2])
    /\ notifier = Some(2)
    /\ metrics.messages_received = 2

C29_ReopenRegistersOnce ==
    [][last'.op = "reconnect" =>
         /\ config' = config
         /\ last'.result = "ok" =>
               /\ Len(last'.calls) \in 1..max_retries
               /\ \A i \in 1..(Len(last'.calls) - 1) : last'.calls[i] # "ok"
               /\ Len(bus_shutdowns') = Len(bus_shutdowns) + 1
               /\ bus' = Some(Len(bus_shutdowns'))
               /\ bus_config' = Some(make_bus_config(config).kwargs)
               /\ bus_config # None => bus_config' = bus_config
               /\ Len(notifiers') = Len(notifiers) + 1
               /\ SubSeq(notifiers', 1, Len(notifiers)) = notifiers
               /\ notifiers'[Len(notifiers')] =
                      [bus |-> Val(bus'), stopped |-> FALSE, alive |-> TRUE]
               /\ notifier' = Some(Len(notifiers'))
         /\ last'.result # "ok" =>
               /\ Len(bus_shutdowns') = Len(bus_shutdowns)
               /\ notifiers' = notifiers
               /\ notifier' = notifier
    ]_vars

\* a probe has failed, the first handle was shut down and the reopen has
\* succeeded at its second attempt: the second registration is on the
\* second handle
C29_Witness ==
    /\ last.op = "reconnect" /\ last.result = "ok"
    /\ last.calls = <<"CanError", "ok">>
    /\ bus = Some(2) /\ bus_shutdowns = <<1, 0>>
    /\ Len(notifiers) = 2
    /\ notifiers[1].stopped /\ notifiers[1].bus = 1
    /\ notifiers[2] = [bus |-> 2, stopped |-> FALSE, alive |-> TRUE]
    /\ ~stop_requested

\* C30: a reconnection begins at a failed probe, which stops the loop's
\* registration, shuts down and releases the handle the codec holds, opens
\* nothing and registers nothing, and leaves the loop in its wait; the wait
\* is entered by no other step and left only by the reopen; at the reopen
\* the registration being replaced is stopped and its handle has been shut
\* down and is not held; a reopen that succeeds opens the next handle and
\* creates the new registration on it.
C30_ReconnectionOrder ==
    [][/\ (last'.op = "probe" /\ loop_pc' = "reconnect_wait") =>
             /\ notifier # None /\ notifier' = notifier
             /\ notifiers'[Val(notifier)].stopped
             /\ bus' = None
             /\ bus # None => bus_shutdowns'[Val(bus)] = bus_shutdowns[Val(bus)] + 1
             /\ Len(bus_shutdowns') = Len(bus_shutdowns)
             /\ Len(notifiers') = Len(notifiers)
       /\ (loop_pc' = "reconnect_wait" /\ loop_pc # "reconnect_wait") => last'.op = "probe"
       /\ (loop_pc = "reconnect_wait" /\ loop_pc' # "reconnect_wait") =>
             last'.op = "reconnect"
       /\ last'.op = "reconnect" =>
             /\ loop_pc = "reconnect_wait"
             /\ notifier # None
             /\ notifiers[Val(notifier)].stopped
             /\ bus_shutdowns[notifiers[Val(notifier)].bus] >= 1
             /\ bus # Some(notifiers[Val(notifier)].bus)
             /\ last'.result = "ok" =>
                   /\ bus' = Some(Len(bus_shutdowns) + 1)
                   /\ notifiers'[Len(notifiers')].bus = Val(bus')
                   /\ notifier' = Some(Len(notifiers'))
                   /\ \A i \in DOMAIN notifiers : notifiers'[i].stopped
    ]_vars

\* a whole reconnection with a library that stops the listeners of a stopped
\* notifier: the first registration stopped, the first handle shut down
\* once, the second handle opened at the first attempt and the second
\* registration on it
C30_Witness ==
    /\ stops_listeners
    /\ last.op = "reconnect" /\ last.calls = <<"ok">>
    /\ running /\ loop_pc = "sleep5"
    /\ bus = Some(2) /\ bus_shutdowns = <<1, 0>>
    /\ notifier = Some(2) /\ Len(notifiers) = 2
    /\ notifiers[1].stopped /\ notifiers[1].bus = 1
    /\ Active(notifiers[2]) /\ notifiers[2].bus = 2

\* C31: on a transport whose state the probe does not read, a probe made
\* while a handle is held and the reader of the registration is alive
\* starts no reconnection, whatever state the transport would report, and
\* leaves the loop asleep until the next probe while running is true; a
\* reconnection starts only when no handle is held or the reader is dead.
C31_NoStateNoFailure ==
    [][(is_virtual /\ last'.op = "probe") =>
          /\ (bus # None /\ check_notifier_health(notifier, notifiers)) =>
                /\ loop_pc' # "reconnect_wait"
                /\ running => loop_pc' = "sleep5"
                /\ bus' = bus /\ notifiers' = notifiers /\ running' = running
          /\ loop_pc' = "reconnect_wait" =>
                bus = None \/ ~check_notifier_health(notifier, notifiers)
    ]_vars

\* a probe has found a virtual transport healthy while the state it would
\* report is not ACTIVE
C31_Witness ==
    /\ is_virtual
    /\ last.op = "probe"
    /\ bus # None /\ bus_state = "PASSIVE"
    /\ running /\ loop_pc = "sleep5"
    /\ notifier # None /\ Active(notifiers[Val(notifier)])

\* C32: a task ends only at a wake-up of its own at which it is cancelled or
\* running is false; a wake-up at which no handle is held sends nothing and
\* one whose send raises sends nothing either, and both leave the task
\* asleep until its next wake-up; no other wake-up of a task that is not
\* cancelled, while running is true, ends a task.
C32_TaskEndsOnlyWhenStopped ==
    [][/\ \A i \in DOMAIN tasks :
             (tasks[i].pc # "done" /\ tasks'[i].pc = "done") =>
                 /\ last'.op = "tick" /\ last'.result = "ended"
                 /\ last'.arg = tasks[i].name
                 /\ tasks[i].cancelled \/ ~running
       /\ (last'.op = "tick" /\ last'.result # "ended") =>
             /\ running
             /\ last'.result = "skipped" <=> bus = None
             /\ last'.result \in {"skipped", "send_error"} => last'.sent = None
             /\ \A i \in DOMAIN tasks : tasks'[i].pc = "done" => tasks[i].pc = "done"
             /\ \E i \in DOMAIN tasks :
                   /\ tasks[i].name = last'.arg /\ ~tasks[i].cancelled
                   /\ tasks'[i].pc = "sleeping"
    ]_vars

\* the send of a task has raised: the task is asleep, not cancelled, in the
\* table under its name, and running is true
C32_Witness ==
    /\ last.op = "tick" /\ last.result = "send_error"
    /\ running /\ bus # None
    /\ last.arg \in DOMAIN periodic_tasks
    /\ tasks[periodic_tasks[last.arg]].pc = "sleeping"
    /\ ~tasks[periodic_tasks[last.arg]].cancelled

\* C33: the frames given to _handle_message are those counted and those
\* whose delivery has not yet written the counter; when no reader thread is
\* in the callback, messages_received is the number of frames delivered.
C33_NoLostUpdate ==
    /\ metrics.messages_received + Cardinality(DOMAIN delivery) = delivered
    /\ Cardinality(DOMAIN delivery) <= 1

\* two frames have been delivered, the second through the registration a
\* reconnection created, and both are counted
C33_Witness ==
    /\ delivered = 2 /\ metrics.messages_received = 2
    /\ delivery = NoDeliveries
    /\ last.op = "callback"
    /\ Len(notifiers) = 2 /\ notifiers[1].stopped /\ Active(notifiers[2])

\* C34: the handle the codec holds has not been shut down, and a frame is
\* sent, by a task or by send_message, on the handle held at that moment
\* only: one that has been opened and not shut down.
C34_NoSendAfterShutdown ==
    /\ [](bus # None => (Val(bus) \in DOMAIN bus_shutdowns /\ bus_shutdowns[Val(bus)] = 0))
    /\ [][last'.sent # None =>
             LET h == Val(last'.sent)[2]
             IN  /\ last'.op \in {"tick", "send_message"}
                 /\ bus = Some(h)
                 /\ h \in DOMAIN bus_shutdowns
                 /\ bus_shutdowns[h] = 0 /\ bus_shutdowns'[h] = 0
       ]_vars

\* send_message has sent on the second handle, the first having been shut
\* down
C34_Witness ==
    /\ last.op = "send_message" /\ last.result = "sent"
    /\ last.sent = Some(<<0, 2>>)
    /\ bus = Some(2) /\ bus_shutdowns = <<1, 0>>

\* C35 as stated: a probe and the reopen of a reconnection leave the schema
\* cache, the events registered, the four counters, the timestamp offset and
\* the first sample as they were, and change nothing but the bus handle, the
\* running flag and the registrations: the periodic tasks and their table
\* are as they were.
C35_LoopTouchesBusOnly ==
    [][last'.op \in {"probe", "reconnect"} =>
         /\ events' = events /\ source_events' = source_events
         /\ metrics' = metrics
         /\ hw_timestamp_offset' = hw_timestamp_offset
         /\ first_hw_timestamp' = first_hw_timestamp
         /\ periodic_tasks' = periodic_tasks /\ tasks' = tasks
    ]_vars

\* C36: a codec in eager mode given the frames a codec in lazy mode was
\* given has, after each frame, made the emissions the lazy codec made for
\* that frame (same cache keys, signal values and timestamps, in the same
\* order) and has the counter values the lazy codec had, and the cache of
\* the lazy codec after the frame is a subset of the eager cache.
C36_LazyEagerSame ==
    first_run # None =>
        \A j \in DOMAIN run_log :
            /\ run_log[j].frame = Val(first_run)[j].frame
            /\ run_log[j].emits = Val(first_run)[j].emits
            /\ run_log[j].metrics = Val(first_run)[j].metrics
            /\ Val(first_run)[j].keys \subseteq run_log[j].keys

\* both codecs have handled a frame of the multiplexed message with a
\* selector value that no signal belongs to and then one with a declared
\* value: the lazy cache is a proper subset of the eager cache
C36_Witness ==
    /\ first_run # None
    /\ Len(run_log) = 2 /\ Len(Val(first_run)) = 2
    /\ run_log[1].frame.arbitration_id = 200 /\ run_log[1].frame.sel = 2
    /\ ~run_log[1].frame.malformed
    /\ run_log[2].frame.arbitration_id = 200 /\ run_log[2].frame.sel = 1
    /\ Len(run_log[2].emits) = 2
    /\ Val(first_run)[2].keys # run_log[2].keys

\* C37 as stated: once a probe has failed and the loop waits to reopen, the
\* codec eventually holds a handle with a registration whose reader is
\* alive (a handle remaining to be opened within the bound of the model).
C37_EventuallyReconnected ==
    (loop_pc = "reconnect_wait" /\ Len(bus_shutdowns) < MaxOpens)
        ~> (/\ bus # None
            /\ notifier # None
            /\ Active(notifiers[Val(notifier)]))

\* C38 as stated: the probe that starts a reconnection and the reopen leave
\* periodic_tasks as it was and cancel no task; a task that wakes while no
\* handle is held sends nothing, and a task that sends does so on the handle
\* held at that moment.
C38_TaskSurvivesReconnect ==
    [][/\ last'.op \in {"probe", "reconnect"} =>
             /\ periodic_tasks' = periodic_tasks
             /\ \A i \in DOMAIN tasks : tasks'[i].cancelled = tasks[i].cancelled
       /\ (last'.op = "tick" /\ bus = None) => last'.sent = None
       /\ (last'.op = "tick" /\ last'.sent # None) => bus = Some(Val(last'.sent)[2])
    ]_vars

\* C39 as stated: a start_periodic that returns an error leaves
\* periodic_tasks and every task as they were: no task is cancelled.
C39_ErrorChangesNothing ==
    [][(last'.op = "start_periodic" /\ last'.result = "error") =>
          /\ periodic_tasks' = periodic_tasks
          /\ tasks' = tasks
    ]_vars

\* C40: messages_decoded + unknown_messages never exceeds
\* messages_received: a handled frame adds exactly 1 to messages_received
\* and adds to at most one of messages_decoded and unknown_messages, and
\* the decode_success_rate that get_metrics reports is at most 1 (10000
\* ten-thousandths).
C40_DecodedPlusUnknownBounded ==
    [][/\ metrics'.messages_decoded + metrics'.unknown_messages
              <= metrics'.messages_received
       /\ last'.op = "callback" =>
              /\ metrics'.messages_received = metrics.messages_received + 1
              /\ \/ metrics'.messages_decoded = metrics.messages_decoded
                 \/ metrics'.unknown_messages = metrics.unknown_messages
       /\ last'.op = "get_metrics" => last'.read.decode_success_rate <= 10000
    ]_vars

\* get_metrics after a frame that decoded and a frame of an unknown ID: the
\* rate reported is one half
C40_Witness ==
    /\ last.op = "get_metrics"
    /\ metrics.messages_received = 2
    /\ metrics.messages_decoded = 1
    /\ metrics.unknown_messages = 1
    /\ last.read.decode_success_rate = 5000

====
